---- MODULE Spec2Model ----
(***************************************************************************)
(* Model of the segmentation-and-enrichment pipeline of auralearn:         *)
(* backend/assessment_pipeline/ingestion (curriculum chunks) and           *)
(* backend/assessment_pipeline/teaching_guides (teaching-guide chunks),    *)
(* with the store clients (upsert_chunks) and the driver of the teaching   *)
(* guides (run_ingestion.py).                                              *)
(*                                                                         *)
(* Text is a sequence of items.  An item is a one-character string, an     *)
(* accented letter written as a two-character atom ("e'" for e-acute,      *)
(* "e_" e-grave, "c," c-cedilla, "a_" a-grave, "o^" o-circumflex, and      *)
(* their capitals), or a filler block "~n": n words "~" separated by     *)
(* single spaces (n tokens, 2n-1 characters).  A filler word contains no   *)
(* letter, digit, punctuation or whitespace, so no pattern of the pattern  *)
(* catalogue matches inside a block.                                       *)
(***************************************************************************)
EXTENDS Integers, Sequences, FiniteSets, TLC

VARIABLES
    pc,              \* position of the operation under way
    variant,         \* "curriculum" | "guide": which pipeline runs
    pages,           \* pages_data: sequence of [page_number, text]
    doc_id,          \* doc_id argument of chunk_document
    sub_data,        \* the Level-B section handed to _level_c_chunking
    sentences,       \* _level_c_chunking: the units of the section
    si,              \* _level_c_chunking: number of units consumed
    current_chunk,   \* _level_c_chunking: running buffer
    current_tokens,  \* _level_c_chunking: token count of the buffer
    lc_chunks,       \* _level_c_chunking: chunks emitted so far
    sectionsA,       \* chunk_document: output of _level_a_chunking
    sectionsB,       \* chunk_document: all Level-B sections, in order
    chunks,          \* chunk_document: returned chunks
    chunks2,         \* the chunks of a second run over the same document
    run,             \* number of completed chunk_document runs
    ids,             \* generate_unique_id of each chunk of the first run
    ids2,            \* generate_unique_id of each chunk of the second run
    chunk_data,      \* the Level-C leaf handed to _create_chunk
    chunk,           \* the assembled chunk (or absent)
    enriched,        \* the chunk returned by enrich_chunk_metadata
    verdict,         \* results of the validators
    detected_categories,  \* the list returned by detect_categories
    ocr_results,     \* main: what extract_text_from_file returns for each PDF
    doc_index,       \* main: i of "for i, pdf_file in enumerate(pdf_files, 1)"
    all_chunks,      \* main: the chunks collected so far
    rejected,        \* history: the chunks validate_chunk has rejected
    log,             \* the lines printed so far
    exit_status,     \* <<code>> once the run has ended, <<>> before
    store_chunks,    \* upsert_chunks: its chunks argument
    clear_first,     \* upsert_chunks: its clear_first argument
    chunk_dicts,     \* upsert_chunks: the converted chunks
    batch_i,         \* upsert_chunks: i of "for i in range(0, len, batch_size)"
    successful_batches,  \* upsert_chunks: batches the store acknowledged
    sent_batches,    \* history: the batches handed to insert(), in order
    table,           \* the rows of the store's table
    success          \* <<value>> once upsert_chunks has returned, <<>> before

levelc_vars == <<sub_data, sentences, si, current_chunk, current_tokens, lc_chunks>>
input_vars == <<variant, pages, doc_id>>
doc_vars == <<sectionsA, sectionsB, chunks, chunks2, run, ids, ids2>>
chunk_vars == <<chunk_data, chunk, enriched, verdict, detected_categories>>
driver_vars == <<ocr_results, doc_index, all_chunks, rejected, log, exit_status>>
store_vars == <<store_chunks, clear_first, chunk_dicts, batch_i, successful_batches,
                sent_batches, table, success>>
run_vars == <<driver_vars, store_vars>>
vars == <<pc, input_vars, levelc_vars, doc_vars, chunk_vars, run_vars>>

(***************************************************************************)
(* Bounds of the model.                                                    *)
(***************************************************************************)
MaxUnits == 3
MaxLines == 3
MaxMarks == 2

(***************************************************************************)
(* Program constants.                                                      *)
(***************************************************************************)
target_min_tokens == 150
target_max_tokens == 300
MinChunkTokens == 50
MinChunkChars == 50
batch_size == 100

(***************************************************************************)
(* Characters and strings.                                                 *)
(***************************************************************************)
WS == {" ", "\n", "\t"}
SentenceEnd == {".", "!", "?"}
Digits == {"0","1","2","3","4","5","6","7","8","9"}
UpperSeq == <<"A","B","C","D","E","F","G","H","I","J","K","L","M","N","O","P","Q","R","S","T","U","V","W","X","Y","Z","E'","E_","C,","A_","O^">>
LowerSeq == <<"a","b","c","d","e","f","g","h","i","j","k","l","m","n","o","p","q","r","s","t","u","v","w","x","y","z","e'","e_","c,","a_","o^">>
AsciiUpper == {UpperSeq[i] : i \in 1..26}

FillTable == {<<"~1", 1>>, <<"~9", 9>>, <<"~20", 20>>, <<"~40", 40>>, <<"~48", 48>>,
              <<"~49", 49>>, <<"~50", 50>>, <<"~60", 60>>, <<"~100", 100>>,
              <<"~149", 149>>, <<"~150", 150>>, <<"~151", 151>>, <<"~152", 152>>,
              <<"~160", 160>>, <<"~300", 300>>, <<"~301", 301>>, <<"~310", 310>>}
IsFill(c) == \E p \in FillTable : p[1] = c
FillTok(c) == (CHOOSE p \in FillTable : p[1] = c)[2]
Fill(n) == (CHOOSE p \in FillTable : p[2] = n)[1]

\* str.lower() and str.upper() on one character
LowerMap == [c \in {UpperSeq[i] : i \in 1..Len(UpperSeq)} |->
                LowerSeq[CHOOSE i \in 1..Len(UpperSeq) : UpperSeq[i] = c]]
UpperMap == [c \in {LowerSeq[i] : i \in 1..Len(LowerSeq)} |->
                UpperSeq[CHOOSE i \in 1..Len(LowerSeq) : LowerSeq[i] = c]]
LowerChar(c) == IF c \in DOMAIN LowerMap THEN LowerMap[c] ELSE c
UpperChar(c) == IF c \in DOMAIN UpperMap THEN UpperMap[c] ELSE c
Lower(s) == [i \in 1..Len(s) |-> LowerChar(s[i])] \o <<>>
Upper(s) == [i \in 1..Len(s) |-> UpperChar(s[i])] \o <<>>

\* len(s): a filler block of n words counts n characters and n-1 spaces
ItemLen(c) == IF IsFill(c) THEN 2 * FillTok(c) - 1 ELSE 1
RECURSIVE StrLen(_)
StrLen(s) == IF s = <<>> THEN 0 ELSE ItemLen(Head(s)) + StrLen(Tail(s))

\* s.strip()
RECURSIVE LStrip(_)
LStrip(s) == IF s # <<>> /\ Head(s) \in WS THEN LStrip(Tail(s)) ELSE s
RECURSIVE RStrip(_)
RStrip(s) ==
    IF s # <<>> /\ s[Len(s)] \in WS THEN RStrip(SubSeq(s, 1, Len(s) - 1)) ELSE s
Strip(s) == RStrip(LStrip(s))

\* len(s.split()): the number of whitespace-delimited words
RECURSIVE CountWords(_, _)
CountWords(s, inword) ==
    IF s = <<>> THEN 0
    ELSE IF Head(s) \in WS THEN CountWords(Tail(s), FALSE)
    ELSE (IF IsFill(Head(s))
             THEN FillTok(Head(s)) - (IF inword THEN 1 ELSE 0)
             ELSE (IF inword THEN 0 ELSE 1))
         + CountWords(Tail(s), TRUE)
Tokens(s) == CountWords(s, FALSE)

\* sep.join(parts)
RECURSIVE Join(_, _)
Join(sep, parts) ==
    IF parts = <<>> THEN <<>>
    ELSE IF Len(parts) = 1 THEN parts[1]
    ELSE parts[1] \o sep \o Join(sep, Tail(parts))

\* s.split('\n')
RECURSIVE SplitLines(_)
SplitLines(s) ==
    IF \E i \in 1..Len(s) : s[i] = "\n"
    THEN LET i == CHOOSE k \in 1..Len(s) :
                      s[k] = "\n" /\ \A j \in 1..(k - 1) : s[j] # "\n"
         IN  <<SubSeq(s, 1, i - 1)>> \o SplitLines(SubSeq(s, i + 1, Len(s)))
    ELSE <<s>>

\* needle in haystack
Contains(s, p) ==
    \E i \in 1..(Len(s) - Len(p) + 1) : SubSeq(s, i, i + Len(p) - 1) = p

\* str(n) for n >= 0
DigitSeq == <<"0","1","2","3","4","5","6","7","8","9">>
RECURSIVE IntStr(_)
IntStr(n) ==
    IF n < 10 THEN <<DigitSeq[n + 1]>>
    ELSE IntStr(n \div 10) \o <<DigitSeq[(n % 10) + 1]>>

(***************************************************************************)
(* Regular expressions: a pattern is a sequence of elements               *)
(* [cs |-> character class, q |-> "1" | "?" | "*"]; x+ is written x x*.    *)
(***************************************************************************)
One(cs) == <<[cs |-> cs, q |-> "1"]>>
Opt(cs) == <<[cs |-> cs, q |-> "?"]>>
Star(cs) == <<[cs |-> cs, q |-> "*"]>>
Plus(cs) == One(cs) \o Star(cs)
Lit(s) == [i \in 1..Len(s) |-> [cs |-> {s[i]}, q |-> "1"]] \o <<>>

\* the positions just after a match of re[j..] that starts at position i of s
RECURSIVE MatchEnds(_, _, _, _)
MatchEnds(s, i, re, j) ==
    IF j > Len(re) THEN {i}
    ELSE LET e == re[j]
             ok == i <= Len(s) /\ s[i] \in e.cs
         IN  CASE e.q = "1" ->
                    IF ok THEN MatchEnds(s, i + 1, re, j + 1) ELSE {}
               [] e.q = "?" ->
                    MatchEnds(s, i, re, j + 1)
                    \cup (IF ok THEN MatchEnds(s, i + 1, re, j + 1) ELSE {})
               [] e.q = "*" ->
                    MatchEnds(s, i, re, j + 1)
                    \cup (IF ok THEN MatchEnds(s, i + 1, re, j) ELSE {})

\* re.search(pattern, s) is not None
Search(re, s) == \E i \in 1..(Len(s) + 1) : MatchEnds(s, i, re, 1) # {}
\* the start of the leftmost match
FirstMatch(re, s) ==
    CHOOSE i \in 1..(Len(s) + 1) :
        /\ MatchEnds(s, i, re, 1) # {}
        /\ \A k \in 1..(i - 1) : MatchEnds(s, k, re, 1) = {}

\* re.IGNORECASE: the pattern's characters and the text are compared in lower
\* case.  IgnoreCase(patterns) is the list compiled for such a search.
IgnoreCaseRe(re) ==
    [j \in 1..Len(re) |-> [cs |-> {LowerChar(d) : d \in re[j].cs}, q |-> re[j].q]]
    \o <<>>
IgnoreCase(patterns) ==
    [k \in 1..Len(patterns) |-> IgnoreCaseRe(patterns[k])] \o <<>>
\* re.search(pattern, s, re.IGNORECASE) is not None, for re_ic = IgnoreCaseRe(pattern)
SearchIC(re_ic, s) == Search(re_ic, Lower(s))

(***************************************************************************)
(* Pattern catalogue: the regular expressions and mappings of the two      *)
(* chunkers and the two metadata builders.                                 *)
(***************************************************************************)
Cur_cycle_patterns ==
    << Lit(<<"C","y","c","l","e">>) \o Star(WS) \o One({"1","2","3","4"}),
       Lit(<<"c","y","c","l","e">>) \o Star(WS) \o One({"1","2","3","4"}) >>

Cur_subject_patterns ==
    << Lit(<<"V","o","l","e","t">>) \o Star(WS) \o One({"1","2","3"}),
       Lit(<<"F","r","a","n","c,","a","i","s">>),
       Lit(<<"M","a","t","h","e'","m","a","t","i","q","u","e","s">>),
       Lit(<<"S","c","i","e","n","c","e","s">>) \o Plus(WS) \o Lit(<<"e","t">>) \o Plus(WS) \o Lit(<<"t","e","c","h","n","o","l","o","g","i","e">>),
       Lit(<<"H","i","s","t","o","i","r","e">>) \o Plus(WS) \o Lit(<<"e","t">>) \o Plus(WS) \o Lit(<<"g","e'","o","g","r","a","p","h","i","e">>),
       Lit(<<"E","n","s","e","i","g","n","e","m","e","n","t">>) \o Plus(WS) \o Lit(<<"m","o","r","a","l">>) \o Plus(WS) \o Lit(<<"e","t">>) \o Plus(WS) \o Lit(<<"c","i","v","i","q","u","e">>),
       Lit(<<"E'","d","u","c","a","t","i","o","n">>) \o Plus(WS) \o Lit(<<"a","r","t","i","s","t","i","q","u","e">>),
       Lit(<<"L","a","n","g","u","e","s">>) \o Plus(WS) \o Lit(<<"v","i","v","a","n","t","e","s">>),
       Lit(<<"E'","d","u","c","a","t","i","o","n">>) \o Plus(WS) \o Lit(<<"p","h","y","s","i","q","u","e">>) \o Plus(WS) \o Lit(<<"e","t">>) \o Plus(WS) \o Lit(<<"s","p","o","r","t","i","v","e">>) >>

Cur_section_patterns ==
    << Lit(<<"O","b","j","e","c","t","i","f","s">>) \o Star(WS) \o Lit(<<"/">>) \o Star(WS) \o Lit(<<"f","i","n","a","l","i","t","e'","s">>),
       Lit(<<"C","o","m","p","e'","t","e","n","c","e","s">>) \o Plus(WS) \o Lit(<<"t","r","a","v","a","i","l","l","e'","e","s">>),
       Lit(<<"C","o","n","n","a","i","s","s","a","n","c","e","s">>) \o Plus(WS) \o Lit(<<"e","t">>) \o Plus(WS) \o Lit(<<"c","o","m","p","e'","t","e","n","c","e","s">>) \o Plus(WS) \o Lit(<<"a","s","s","o","c","i","e'","e","s">>),
       Lit(<<"R","e","p","e_","r","e","s">>) \o Plus(WS) \o Lit(<<"d","e">>) \o Plus(WS) \o Lit(<<"p","r","o","g","r","e","s","s","i","o","n">>),
       Lit(<<"S","i","t","u","a","t","i","o","n","s">>) \o Plus(WS) \o Lit(<<"d">>) \o Opt({"'"}) \o Lit(<<"a","p","p","r","e","n","t","i","s","s","a","g","e">>) >>

Cur_grade_patterns ==
    << Lit(<<"C","M","1">>),
       Lit(<<"C","M","2">>),
       Lit(<<"6","e">>),
       Lit(<<"5","e">>),
       Lit(<<"4","e">>),
       Lit(<<"3","e">>) >>

TG_chapter_patterns ==
    << Lit(<<"C","h","a","p","i","t","r","e">>) \o Plus(WS) \o Plus(Digits),
       Lit(<<"C","h","a","p","t","e","r">>) \o Plus(WS) \o Plus(Digits),
       Lit(<<"P","a","r","t","i","e">>) \o Plus(WS) \o Plus(Digits),
       Lit(<<"S","e","c","t","i","o","n">>) \o Plus(WS) \o Plus(Digits) >>

TG_section_patterns ==
    << Lit(<<"S","t","r","a","t","e'","g","i","e","s">>) \o Plus(WS) \o Lit(<<"p","e'","d","a","g","o","g","i","q","u","e","s">>),
       Lit(<<"O","b","j","e","c","t","i","f","s">>) \o Plus(WS) \o Lit(<<"d">>) \o One({"'"}) \o Lit(<<"a","p","p","r","e","n","t","i","s","s","a","g","e">>),
       Lit(<<"A","c","t","i","v","i","t","e'","s">>) \o Plus(WS) \o Lit(<<"p","r","o","p","o","s","e'","e","s">>),
       Lit(<<"E'","v","a","l","u","a","t","i","o","n">>),
       Lit(<<"R","e","s","s","o","u","r","c","e","s">>),
       Lit(<<"C","o","n","s","e","i","l","s">>) \o Plus(WS) \o Lit(<<"p","r","a","t","i","q","u","e","s">>),
       Lit(<<"D","i","f","f","e'","r","e","n","c","i","a","t","i","o","n">>),
       Lit(<<"P","r","o","g","r","e","s","s","i","o","n">>) >>

TG_grade_patterns ==
    << Lit(<<"C","M","1">>),
       Lit(<<"C","M","2">>),
       Lit(<<"6","e">>),
       Lit(<<"5","e">>),
       Lit(<<"4","e">>),
       Lit(<<"3","e">>),
       Lit(<<"C","E","1">>),
       Lit(<<"C","E","2">>),
       Lit(<<"C","P">>) >>

guide_type_strategy ==
    << Lit(<<"s","t","r","a","t","e'","g","i","e">>),
       Lit(<<"m","e'","t","h","o","d","e">>),
       Lit(<<"a","p","p","r","o","c","h","e">>) >>

guide_type_activity ==
    << Lit(<<"a","c","t","i","v","i","t","e'">>),
       Lit(<<"e","x","e","r","c","i","c","e">>),
       Lit(<<"p","r","a","t","i","q","u","e">>) >>

guide_type_assessment ==
    << Lit(<<"e'","v","a","l","u","a","t","i","o","n">>),
       Lit(<<"t","e","s","t">>),
       Lit(<<"c","o","n","t","r","o","^","l","e">>) >>

pat_visual_learner ==
    << Lit(<<"v","i","s","u","a","l">>),
       Lit(<<"d","i","a","g","r","a","m">>),
       Lit(<<"c","h","a","r","t">>),
       Lit(<<"i","m","a","g","e">>),
       Lit(<<"p","i","c","t","u","r","e">>),
       Lit(<<"g","r","a","p","h","i","c">>),
       Lit(<<"c","o","l","o","r">>),
       Lit(<<"i","l","l","u","s","t","r","a","t","i","o","n">>),
       Lit(<<"m","a","p">>),
       Lit(<<"v","i","d","e","o">>) >>

pat_slow_processing ==
    << Lit(<<"s","l","o","w">>),
       Lit(<<"e","x","t","r","a"," ","t","i","m","e">>),
       Lit(<<"e","x","t","e","n","d","e","d"," ","t","i","m","e">>),
       Lit(<<"p","a","c","e">>),
       Lit(<<"s","t","e","p","-","b","y","-","s","t","e","p">>),
       Lit(<<"g","r","a","d","u","a","l">>),
       Lit(<<"p","a","t","i","e","n","t">>),
       Lit(<<"w","a","i","t">>) >>

pat_fast_processor ==
    << Lit(<<"f","a","s","t">>),
       Lit(<<"q","u","i","c","k">>),
       Lit(<<"a","d","v","a","n","c","e","d">>),
       Lit(<<"c","h","a","l","l","e","n","g","e">>),
       Lit(<<"e","x","t","e","n","s","i","o","n">>),
       Lit(<<"a","c","c","e","l","e","r","a","t">>),
       Lit(<<"e","n","r","i","c","h">>),
       Lit(<<"c","o","m","p","l","e","x">>) >>

pat_needs_repetition ==
    << Lit(<<"r","e","p","e","t","i","t","i","o","n">>),
       Lit(<<"r","e","p","e","a","t">>),
       Lit(<<"p","r","a","c","t","i","c","e">>),
       Lit(<<"r","e","v","i","e","w">>),
       Lit(<<"r","e","i","n","f","o","r","c","e">>),
       Lit(<<"d","r","i","l","l">>),
       Lit(<<"m","u","l","t","i","p","l","e"," ","t","i","m","e","s">>),
       Lit(<<"a","g","a","i","n">>) >>

pat_high_energy ==
    << Lit(<<"m","o","v","e","m","e","n","t">>),
       Lit(<<"a","c","t","i","v","e">>),
       Lit(<<"p","h","y","s","i","c","a","l">>),
       Lit(<<"k","i","n","e","s","t","h","e","t","i","c">>),
       Lit(<<"h","a","n","d","s","-","o","n">>),
       Lit(<<"m","a","n","i","p","u","l","a","t","i","v","e">>),
       Lit(<<"b","r","e","a","k">>),
       Lit(<<"a","c","t","i","v","i","t","y">>) >>

pat_easily_distracted ==
    << Lit(<<"f","o","c","u","s">>),
       Lit(<<"a","t","t","e","n","t","i","o","n">>),
       Lit(<<"d","i","s","t","r","a","c","t">>),
       Lit(<<"q","u","i","e","t">>),
       Lit(<<"m","i","n","i","m","i","z","e">>),
       Lit(<<"s","t","r","u","c","t","u","r","e">>),
       Lit(<<"r","o","u","t","i","n","e">>),
       Lit(<<"c","l","e","a","r">>) >>

pat_sensitive_low_confidence ==
    << Lit(<<"c","o","n","f","i","d","e","n","c","e">>),
       Lit(<<"e","n","c","o","u","r","a","g","e">>),
       Lit(<<"s","u","p","p","o","r","t">>),
       Lit(<<"p","r","a","i","s","e">>),
       Lit(<<"p","o","s","i","t","i","v","e">>),
       Lit(<<"g","e","n","t","l","e">>),
       Lit(<<"r","e","a","s","s","u","r","e">>),
       Lit(<<"s","a","f","e">>) >>

pat_logical_learner ==
    << Lit(<<"l","o","g","i","c">>),
       Lit(<<"p","a","t","t","e","r","n">>),
       Lit(<<"s","e","q","u","e","n","c","e">>),
       Lit(<<"r","e","a","s","o","n">>),
       Lit(<<"p","r","o","b","l","e","m","-","s","o","l","v","i","n","g">>),
       Lit(<<"a","n","a","l","y","z">>),
       Lit(<<"s","y","s","t","e","m","a","t","i","c">>),
       Lit(<<"o","r","d","e","r">>) >>

category_patterns ==
    << <<"visual_learner", pat_visual_learner>>,
       <<"slow_processing", pat_slow_processing>>,
       <<"fast_processor", pat_fast_processor>>,
       <<"needs_repetition", pat_needs_repetition>>,
       <<"high_energy", pat_high_energy>>,
       <<"easily_distracted", pat_easily_distracted>>,
       <<"sensitive_low_confidence", pat_sensitive_low_confidence>>,
       <<"logical_learner", pat_logical_learner>> >>

grade_mappings ==
    << <<<<"c","p">>, <<"C","P">>>>,
       <<<<"c","e","1">>, <<"C","E","1">>>>,
       <<<<"c","e","2">>, <<"C","E","2">>>>,
       <<<<"c","m","1">>, <<"C","M","1">>>>,
       <<<<"c","m","2">>, <<"C","M","2">>>>,
       <<<<"6","e">>, <<"6","e">>>>,
       <<<<"5","e">>, <<"5","e">>>>,
       <<<<"4","e">>, <<"4","e">>>>,
       <<<<"3","e">>, <<"3","e">>>> >>

subject_mappings ==
    << <<<<"f","r","a","n","c,","a","i","s">>,
         <<"F","r","a","n","c,","a","i","s">>>>,
       <<<<"f","r","a","n","c","a","i","s">>,
         <<"F","r","a","n","c,","a","i","s">>>>,
       <<<<"m","a","t","h","e'","m","a","t","i","q","u","e","s">>,
         <<"M","a","t","h","e'","m","a","t","i","q","u","e","s">>>>,
       <<<<"m","a","t","h","e","m","a","t","i","q","u","e","s">>,
         <<"M","a","t","h","e'","m","a","t","i","q","u","e","s">>>>,
       <<<<"s","c","i","e","n","c","e","s"," ","e","t"," ","t","e","c","h","n","o","l","o","g","i","e">>,
         <<"S","c","i","e","n","c","e","s"," ","e","t"," ","t","e","c","h","n","o","l","o","g","i","e">>>>,
       <<<<"h","i","s","t","o","i","r","e"," ","e","t"," ","g","e'","o","g","r","a","p","h","i","e">>,
         <<"H","i","s","t","o","i","r","e"," ","e","t"," ","g","e'","o","g","r","a","p","h","i","e">>>>,
       <<<<"e","n","s","e","i","g","n","e","m","e","n","t"," ","m","o","r","a","l"," ","e","t"," ","c","i","v","i","q","u","e">>,
         <<"E","n","s","e","i","g","n","e","m","e","n","t"," ","m","o","r","a","l"," ","e","t"," ","c","i","v","i","q","u","e">>>>,
       <<<<"e'","d","u","c","a","t","i","o","n"," ","a","r","t","i","s","t","i","q","u","e">>,
         <<"E'","d","u","c","a","t","i","o","n"," ","a","r","t","i","s","t","i","q","u","e">>>>,
       <<<<"l","a","n","g","u","e","s"," ","v","i","v","a","n","t","e","s">>,
         <<"L","a","n","g","u","e","s"," ","v","i","v","a","n","t","e","s">>>>,
       <<<<"e'","d","u","c","a","t","i","o","n"," ","p","h","y","s","i","q","u","e"," ","e","t"," ","s","p","o","r","t","i","v","e">>,
         <<"E'","d","u","c","a","t","i","o","n"," ","p","h","y","s","i","q","u","e"," ","e","t"," ","s","p","o","r","t","i","v","e">>>> >>

section_type_mappings ==
    << <<<<"o","b","j","e","c","t","i","f","s">>,
         <<"o","b","j","e","c","t","i","v","e","s">>>>,
       <<<<"f","i","n","a","l","i","t","e'","s">>,
         <<"o","b","j","e","c","t","i","v","e","s">>>>,
       <<<<"c","o","m","p","e'","t","e","n","c","e","s">>,
         <<"c","o","m","p","e","t","e","n","c","i","e","s">>>>,
       <<<<"c","o","n","n","a","i","s","s","a","n","c","e","s">>,
         <<"k","n","o","w","l","e","d","g","e">>>>,
       <<<<"r","e","p","e_","r","e","s"," ","d","e"," ","p","r","o","g","r","e","s","s","i","o","n">>,
         <<"p","r","o","g","r","e","s","s","i","o","n">>>>,
       <<<<"s","i","t","u","a","t","i","o","n","s"," ","d","'","a","p","p","r","e","n","t","i","s","s","a","g","e">>,
         <<"l","e","a","r","n","i","n","g","_","s","i","t","u","a","t","i","o","n","s">>>>,
       <<<<"v","o","l","e","t">>,
         <<"s","u","b","j","e","c","t","_","a","r","e","a">>>> >>

cycle_wide_indicators ==
    << <<"t","o","u","t"," ","l","e"," ","c","y","c","l","e">>,
       <<"c","y","c","l","e"," ","e","n","t","i","e","r">>,
       <<"t","o","u","s"," ","n","i","v","e","a","u","x">> >>


\* the pattern lists that the code searches with re.IGNORECASE
Cur_subject_patterns_ic == IgnoreCase(Cur_subject_patterns)
Cur_section_patterns_ic == IgnoreCase(Cur_section_patterns)
Cur_grade_patterns_ic == IgnoreCase(Cur_grade_patterns)
TG_chapter_patterns_ic == IgnoreCase(TG_chapter_patterns)
TG_section_patterns_ic == IgnoreCase(TG_section_patterns)
TG_grade_patterns_ic == IgnoreCase(TG_grade_patterns)
guide_type_strategy_ic == IgnoreCase(guide_type_strategy)
guide_type_activity_ic == IgnoreCase(guide_type_activity)
guide_type_assessment_ic == IgnoreCase(guide_type_assessment)
category_patterns_ic ==
    [k \in 1..Len(category_patterns) |->
        <<category_patterns[k][1], IgnoreCase(category_patterns[k][2])>>] \o <<>>

(***************************************************************************)
(* Level C: greedy packing of sentence units into 150-300 token chunks.    *)
(* The curriculum and the teaching-guide chunker carry the same code.      *)
(***************************************************************************)
\* {**r, **s}
Merge(r, s) ==
    [k \in (DOMAIN r) \cup (DOMAIN s) |-> IF k \in DOMAIN s THEN s[k] ELSE r[k]]

Min(S) == CHOOSE x \in S : \A y \in S : x <= y
Max(S) == CHOOSE x \in S : \A y \in S : y <= x

\* re.split(r'(?<=[.!?])\s+', text)
RECURSIVE SplitSentences(_)
SplitSentences(s) ==
    LET cuts == {i \in 2..Len(s) : s[i] \in WS /\ s[i - 1] \in SentenceEnd}
    IN  IF cuts = {} THEN <<s>>
        ELSE LET i == Min(cuts)
                 rest == LStrip(SubSeq(s, i, Len(s)))
             IN  <<SubSeq(s, 1, i - 1)>> \o SplitSentences(rest)

\* the record appended to chunks
LeafOf(sub, text, tokens) ==
    Merge(sub, [chunk_text |-> Strip(text), token_count |-> tokens])

\* the loop iteration without the minimum test of the flush condition: the
\* buffer is emitted as soon as the next sentence would overflow it
LevelCIter_NoMinTest(sub, st, sentence) ==
    LET sentence_tokens == Tokens(sentence)
    IN  IF st.current_tokens + sentence_tokens > target_max_tokens
        THEN [chunks |-> Append(st.chunks,
                                LeafOf(sub, st.current_chunk, st.current_tokens)),
              current_chunk |-> sentence,
              current_tokens |-> sentence_tokens]
        ELSE [chunks |-> st.chunks,
              current_chunk |-> st.current_chunk \o <<" ">> \o sentence,
              current_tokens |-> st.current_tokens + sentence_tokens]

\* the loop iteration that drops the sentence on which it flushes: the new
\* buffer starts empty
LevelCIter_DropsUnit(sub, st, sentence) ==
    LET sentence_tokens == Tokens(sentence)
    IN  IF /\ st.current_tokens + sentence_tokens > target_max_tokens
           /\ st.current_tokens >= target_min_tokens
        THEN [chunks |-> Append(st.chunks,
                                LeafOf(sub, st.current_chunk, st.current_tokens)),
              current_chunk |-> <<>>,
              current_tokens |-> 0]
        ELSE [chunks |-> st.chunks,
              current_chunk |-> st.current_chunk \o <<" ">> \o sentence,
              current_tokens |-> st.current_tokens + sentence_tokens]

\* the loop iteration that flushes only a buffer of more than 151 tokens
LevelCIter_HighMinTest(sub, st, sentence) ==
    LET sentence_tokens == Tokens(sentence)
    IN  IF /\ st.current_tokens + sentence_tokens > target_max_tokens
           /\ st.current_tokens > target_min_tokens + 1
        THEN [chunks |-> Append(st.chunks,
                                LeafOf(sub, st.current_chunk, st.current_tokens)),
              current_chunk |-> sentence,
              current_tokens |-> sentence_tokens]
        ELSE [chunks |-> st.chunks,
              current_chunk |-> st.current_chunk \o <<" ">> \o sentence,
              current_tokens |-> st.current_tokens + sentence_tokens]

\* one iteration of the loop over sentences; st is the loop state
LevelCIter(sub, st, sentence) ==
    LET sentence_tokens == Tokens(sentence)
    IN  IF /\ st.current_tokens + sentence_tokens > target_max_tokens
           /\ st.current_tokens >= target_min_tokens
        THEN [chunks |-> Append(st.chunks,
                                LeafOf(sub, st.current_chunk, st.current_tokens)),
              current_chunk |-> sentence,
              current_tokens |-> sentence_tokens]
        ELSE [chunks |-> st.chunks,
              current_chunk |-> st.current_chunk \o <<" ">> \o sentence,
              current_tokens |-> st.current_tokens + sentence_tokens]

\* the flush after the loop without the 50-token test: any non-blank tail is
\* emitted
LevelCFlush_AnyTail(sub, st) ==
    IF Strip(st.current_chunk) # <<>>
    THEN Append(st.chunks, LeafOf(sub, st.current_chunk, st.current_tokens))
    ELSE st.chunks

\* the flush after the loop that drops any tail below the lower target
LevelCFlush_TargetMin(sub, st) ==
    IF Strip(st.current_chunk) # <<>> /\ st.current_tokens >= target_min_tokens
    THEN Append(st.chunks, LeafOf(sub, st.current_chunk, st.current_tokens))
    ELSE st.chunks

\* the flush after the loop
LevelCFlush(sub, st) ==
    IF Strip(st.current_chunk) # <<>> /\ st.current_tokens >= MinChunkTokens
    THEN Append(st.chunks, LeafOf(sub, st.current_chunk, st.current_tokens))
    ELSE st.chunks

LevelCStart == [chunks |-> <<>>, current_chunk |-> <<>>, current_tokens |-> 0]

RECURSIVE LevelCFold(_, _, _)
LevelCFold(sub, st, sents) ==
    IF sents = <<>> THEN st
    ELSE LevelCFold(sub, LevelCIter(sub, st, Head(sents)), Tail(sents))

\* _level_c_chunking(sub_data)
LevelCChunking(sub) ==
    LevelCFlush(sub, LevelCFold(sub, LevelCStart, SplitSentences(sub.text)))

(***************************************************************************)
(* Sections handed to Level C.                                             *)
(***************************************************************************)
s_General == <<"G","e","n","e","r","a","l">>
s_general == <<"g","e","n","e","r","a","l">>
s_Volet1 == <<"V","o","l","e","t"," ","1">>
s_d1 == <<"d","1">>
s_d2 == <<"d","2">>

\* a Level-B section with no minor boundary, as _level_b_chunking returns it
PlainSection(v, text, pgs, did) ==
    IF v = "curriculum"
    THEN [subject |-> s_Volet1, text |-> text, pages |-> pgs, doc_id |-> did,
          line_start |-> 0, line_end |-> Len(SplitLines(text)),
          section_type |-> s_general, topic |-> s_Volet1]
    ELSE [topic |-> s_General, text |-> text, pages |-> pgs, doc_id |-> did,
          line_start |-> 0, line_end |-> Len(SplitLines(text)),
          section_header |-> s_General, subtopic |-> s_General]

UnitSizes == {1, 49, 50, 100, 149, 150, 151, 152, 301}
Separators == {<<" ">>, <<"\n">>}
\* a sentence unit of n tokens
Unit(n) == <<Fill(n), ".">>
UnitSeqs == UNION {[1..k -> UnitSizes] : k \in 0..MaxUnits}
UnitText(us, sep) == Join(sep, [i \in 1..Len(us) |-> Unit(us[i])])

Variants == {"curriculum", "guide"}

NoDocument ==
    /\ pages = <<>> /\ doc_id = <<>> /\ sectionsA = <<>> /\ sectionsB = <<>>
    /\ chunks = <<>> /\ chunks2 = <<>> /\ run = 0 /\ ids = <<>> /\ ids2 = <<>>
NoLevelC ==
    /\ sub_data = <<>> /\ sentences = <<>> /\ si = 0 /\ current_chunk = <<>>
    /\ current_tokens = 0 /\ lc_chunks = <<>>
NoChunk ==
    /\ chunk_data = <<>> /\ chunk = <<>> /\ enriched = <<>> /\ verdict = <<>>
    /\ detected_categories = <<>>
NoDriver ==
    /\ ocr_results = <<>> /\ doc_index = 0 /\ all_chunks = <<>>
    /\ rejected = <<>> /\ log = <<>> /\ exit_status = <<>>
NoStore ==
    /\ store_chunks = <<>> /\ clear_first = FALSE /\ chunk_dicts = <<>>
    /\ batch_i = 0 /\ successful_batches = 0 /\ sent_batches = <<>>
    /\ table = <<>> /\ success = <<>>

(***************************************************************************)
(* Specification SpecLevelC: _level_c_chunking run on one section, one     *)
(* loop iteration per step.                                                *)
(***************************************************************************)
InitLevelC ==
    /\ pc = "c_start"
    /\ variant \in Variants
    /\ \E us \in UnitSeqs, sep \in Separators :
          sub_data = PlainSection(variant, UnitText(us, sep),
                                  <<[page_number |-> 1, text |-> UnitText(us, sep)]>>,
                                  s_d1)
    /\ sentences = <<>> /\ si = 0 /\ current_chunk = <<>>
    /\ current_tokens = 0 /\ lc_chunks = <<>>
    /\ NoDocument /\ NoChunk /\ NoDriver /\ NoStore

LevelCState ==
    [chunks |-> lc_chunks, current_chunk |-> current_chunk,
     current_tokens |-> current_tokens]

LevelCBegin ==
    /\ pc = "c_start"
    /\ sentences' = SplitSentences(sub_data.text)
    /\ si' = 0
    /\ current_chunk' = LevelCStart.current_chunk
    /\ current_tokens' = LevelCStart.current_tokens
    /\ lc_chunks' = LevelCStart.chunks
    /\ pc' = "c_loop"
    /\ UNCHANGED <<input_vars, run_vars, sub_data, doc_vars, chunk_vars>>

LevelCSentence ==
    /\ pc = "c_loop"
    /\ si < Len(sentences)
    /\ LET st == LevelCIter(sub_data, LevelCState, sentences[si + 1])
       IN  /\ lc_chunks' = st.chunks
           /\ current_chunk' = st.current_chunk
           /\ current_tokens' = st.current_tokens
    /\ si' = si + 1
    /\ UNCHANGED <<pc, input_vars, run_vars, sub_data, sentences, doc_vars, chunk_vars>>

LevelCEnd ==
    /\ pc = "c_loop"
    /\ si = Len(sentences)
    /\ lc_chunks' = LevelCFlush(sub_data, LevelCState)
    /\ pc' = "c_done"
    /\ UNCHANGED <<input_vars, run_vars, sub_data, sentences, si, current_chunk,
                   current_tokens, doc_vars, chunk_vars>>

NextLevelC == LevelCBegin \/ LevelCSentence \/ LevelCEnd

SpecLevelC == InitLevelC /\ [][NextLevelC]_vars

\* the token counts of the units of the section under Level C
UnitTokens == [i \in 1..Len(sentences) |-> Tokens(sentences[i])]
SectionTokens == Tokens(sub_data.text)
TokenCounts == [i \in 1..Len(lc_chunks) |-> lc_chunks[i].token_count]

CombinePagesText(pages_data) ==
    Join(<<"\n">>, [i \in 1..Len(pages_data) |-> pages_data[i].text])

\* _get_pages_for_text_section: every section is fed by all pages
\* a section fed by the first page only
GetPagesForTextSection_FirstPage(pages_data, start_line, end_line, all_lines) ==
    IF pages_data = <<>> THEN <<>> ELSE <<pages_data[1]>>
GetPagesForTextSection(pages_data, start_line, end_line, all_lines) == pages_data

\* the loop "for i, line in enumerate(lines): for pattern in patterns: ..."
\* with re.IGNORECASE (patterns compiled by IgnoreCase); idx is the 0-based
\* line index
RECURSIVE BoundariesFrom(_, _, _)
BoundariesFrom(lines, patterns, i) ==
    IF i > Len(lines) THEN <<>>
    ELSE (IF \E k \in 1..Len(patterns) : SearchIC(patterns[k], lines[i])
          THEN <<[idx |-> i - 1, name |-> Strip(lines[i])]>>
          ELSE <<>>)
         \o BoundariesFrom(lines, patterns, i + 1)
Boundaries(lines, patterns) == BoundariesFrom(lines, patterns, 1)

\* lines[start:end] joined by '\n' (start, end 0-based, end exclusive)
SliceText(lines, start, end) == Join(<<"\n">>, SubSeq(lines, start + 1, end))
\* every section running to the end of the document
EndIdx_ToEnd(b, i, lines) == Len(lines)
EndIdx(b, i, lines) == IF i + 1 <= Len(b) THEN b[i + 1].idx ELSE Len(lines)

\* CurriculumChunker._level_a_chunking
Cur_level_a_chunking(pages_data, did) ==
    LET combined_text == CombinePagesText(pages_data)
        lines == SplitLines(combined_text)
        b == Boundaries(lines, Cur_subject_patterns_ic)
    IN  [i \in 1..Len(b) |->
            [subject |-> b[i].name,
             text |-> SliceText(lines, b[i].idx, EndIdx(b, i, lines)),
             pages |-> GetPagesForTextSection(pages_data, b[i].idx,
                                              EndIdx(b, i, lines), lines),
             doc_id |-> did,
             line_start |-> b[i].idx,
             line_end |-> EndIdx(b, i, lines)]]

\* CurriculumChunker._level_b_chunking
Cur_level_b_chunking(subject_data) ==
    LET lines == SplitLines(subject_data.text)
        b == Boundaries(lines, Cur_section_patterns_ic)
    IN  IF b = <<>>
        THEN <<Merge(subject_data, [section_type |-> s_general,
                                    topic |-> subject_data.subject])>>
        ELSE [i \in 1..Len(b) |->
                 Merge(subject_data,
                       [section_type |-> b[i].name,
                        topic |-> b[i].name,
                        text |-> SliceText(lines, b[i].idx, EndIdx(b, i, lines)),
                        line_start |-> b[i].idx,
                        line_end |-> EndIdx(b, i, lines)])]

\* TeachingGuideChunker._level_a_chunking
TG_level_a_chunking(pages_data, did) ==
    LET combined_text == CombinePagesText(pages_data)
        lines == SplitLines(combined_text)
        b == Boundaries(lines, TG_chapter_patterns_ic)
    IN  IF b = <<>>
        THEN <<[topic |-> s_General, text |-> combined_text, pages |-> pages_data,
                doc_id |-> did, line_start |-> 0, line_end |-> Len(lines)]>>
        ELSE [i \in 1..Len(b) |->
                 [topic |-> b[i].name,
                  text |-> SliceText(lines, b[i].idx, EndIdx(b, i, lines)),
                  pages |-> GetPagesForTextSection(pages_data, b[i].idx,
                                                   EndIdx(b, i, lines), lines),
                  doc_id |-> did,
                  line_start |-> b[i].idx,
                  line_end |-> EndIdx(b, i, lines)]]

\* TeachingGuideChunker._level_b_chunking
TG_level_b_chunking(chapter_data) ==
    LET lines == SplitLines(chapter_data.text)
        b == Boundaries(lines, TG_section_patterns_ic)
    IN  IF b = <<>>
        THEN <<Merge(chapter_data, [section_header |-> s_General,
                                    subtopic |-> chapter_data.topic])>>
        ELSE [i \in 1..Len(b) |->
                 Merge(chapter_data,
                       [section_header |-> b[i].name,
                        subtopic |-> b[i].name,
                        text |-> SliceText(lines, b[i].idx, EndIdx(b, i, lines)),
                        line_start |-> b[i].idx,
                        line_end |-> EndIdx(b, i, lines)])]

\* the concatenation of a sequence of sequences
RECURSIVE Flatten(_)
Flatten(ss) == IF ss = <<>> THEN <<>> ELSE Head(ss) \o Flatten(Tail(ss))

(***************************************************************************)
(* Metadata extraction and chunk assembly.                                 *)
(***************************************************************************)
s_fr == <<"f","r">>
s_3 == <<"3">>
s_2 == <<"2">>
s_CM1 == <<"C","M","1">>
s_CM2 == <<"C","M","2">>
s_CE1 == <<"C","E","1">>
s_CE2 == <<"C","E","2">>
s_6e == <<"6","e">>
s_pedagogical == <<"p","e","d","a","g","o","g","i","c","a","l">>
s_strategy == <<"s","t","r","a","t","e","g","y">>
s_activity == <<"a","c","t","i","v","i","t","y">>
s_assessment == <<"a","s","s","e","s","s","m","e","n","t">>
\* Python's None for a string-valued field, and for an integer-valued field
NoneVal == <<"None">>
NoneInt == 0 - 1

\* d.get(k, default)
Get(d, k, default) == IF k \in DOMAIN d THEN d[k] ELSE default

\* the source text of a pattern made of literal characters
PatStr(p) == [i \in 1..Len(p) |-> CHOOSE c \in p[i].cs : TRUE]

\* [pattern.upper() for pattern in patterns if re.search(pattern, text, re.IGNORECASE)]
RECURSIVE MatchedUpper(_, _, _)
MatchedUpper(patterns, patterns_ic, text) ==
    IF patterns = <<>> THEN <<>>
    ELSE (IF SearchIC(Head(patterns_ic), text)
          THEN <<Upper(PatStr(Head(patterns)))>> ELSE <<>>)
         \o MatchedUpper(Tail(patterns), Tail(patterns_ic), text)

\* the text matched by the leftmost match of re in s
MatchText(re, s) ==
    LET i == FirstMatch(re, s)
        e == Max(MatchEnds(s, i, re, 1))
    IN  SubSeq(s, i, e - 1)
\* re.findall(r'\d+', m)[0]
FirstNumber(m) ==
    LET i == CHOOSE k \in 1..Len(m) :
                 m[k] \in Digits /\ \A j \in 1..(k - 1) : m[j] \notin Digits
        e == CHOOSE k \in i..Len(m) :
                 /\ \A j \in i..k : m[j] \in Digits
                 /\ (k = Len(m) \/ m[k + 1] \notin Digits)
    IN  SubSeq(m, i, e)

\* "for pattern in self.cycle_patterns: match = re.search(pattern, text) ..."
Cur_detect_cycle(text) ==
    IF \E k \in 1..Len(Cur_cycle_patterns) : Search(Cur_cycle_patterns[k], text)
    THEN LET k == Min({j \in 1..Len(Cur_cycle_patterns) :
                          Search(Cur_cycle_patterns[j], text)})
         IN  FirstNumber(MatchText(Cur_cycle_patterns[k], text))
    ELSE s_3

\* the default grade list of a cycle-wide chunk
Cur_default_grades(cycle) ==
    IF cycle = s_3 THEN <<s_CM1, s_CM2, s_6e>>
    ELSE IF cycle = s_2 THEN <<s_CE1, s_CE2, s_CM1, s_CM2>>
    ELSE <<>>

\* CurriculumChunker._extract_metadata
Cur_extract_metadata(cd) ==
    LET text == Lower(Get(cd, "chunk_text", <<>>))
        cycle == Cur_detect_cycle(text)
        subject == Get(cd, "subject", s_General)
        found == MatchedUpper(Cur_grade_patterns, Cur_grade_patterns_ic, text)
        is_cycle_wide == Len(found) = 0
        grades == IF is_cycle_wide THEN Cur_default_grades(cycle) ELSE found
        section_type == Get(cd, "section_type", s_general)
        topic == Get(cd, "topic", subject)
    IN  [cycle |-> cycle, grades |-> grades, subject |-> subject,
         section_type |-> section_type, topic |-> topic, subtopic |-> topic,
         is_cycle_wide |-> is_cycle_wide]

\* _extract_metadata without the default grades: grades are those found in
\* the text and the chunk is never marked general
TG_extract_metadata_NoDefault(cd) ==
    LET text == Lower(Get(cd, "chunk_text", <<>>))
        topic == Get(cd, "topic", s_General)
    IN  [guide_type |-> s_pedagogical,
         applicable_grades |-> MatchedUpper(TG_grade_patterns, TG_grade_patterns_ic, text),
         topic |-> topic, subtopic |-> Get(cd, "subtopic", topic),
         section_header |-> Get(cd, "section_header", s_General),
         is_general |-> FALSE]

\* TeachingGuideChunker._extract_metadata
TG_extract_metadata(cd) ==
    LET text == Lower(Get(cd, "chunk_text", <<>>))
        guide_type ==
            IF \E k \in 1..Len(guide_type_strategy_ic) :
                   SearchIC(guide_type_strategy_ic[k], text) THEN s_strategy
            ELSE IF \E k \in 1..Len(guide_type_activity_ic) :
                   SearchIC(guide_type_activity_ic[k], text) THEN s_activity
            ELSE IF \E k \in 1..Len(guide_type_assessment_ic) :
                   SearchIC(guide_type_assessment_ic[k], text) THEN s_assessment
            ELSE s_pedagogical
        found == MatchedUpper(TG_grade_patterns, TG_grade_patterns_ic, text)
        is_general == Len(found) = 0
        applicable_grades == IF is_general THEN <<s_CM1, s_CM2, s_6e>> ELSE found
        topic == Get(cd, "topic", s_General)
    IN  [guide_type |-> guide_type, applicable_grades |-> applicable_grades,
         topic |-> topic, subtopic |-> Get(cd, "subtopic", topic),
         section_header |-> Get(cd, "section_header", s_General),
         is_general |-> is_general]

\* schemas.CurriculumChunk(**fields): the fields given, the others defaulted
CurriculumChunk(fields) == Merge([id |-> NoneVal], fields)
\* schemas.TeachingGuideChunk(**fields)
TeachingGuideChunk(fields) ==
    Merge([id |-> NoneVal, applicable_categories |-> <<>>], fields)

PageNumbers(pgs) == {pgs[i].page_number : i \in 1..Len(pgs)}

\* the body of _create_chunk raises: min() of no pages, or p['page_number']
\* of a page that has no number (page_number NoneInt)
CreateRaises(cd) ==
    \/ cd.pages = <<>>
    \/ \E i \in 1..Len(cd.pages) : cd.pages[i].page_number = NoneInt

\* _create_chunk with the page range reversed (max for page_start, min for
\* page_end)
Cur_create_chunk_ReversedPages(cd) ==
    LET metadata == Cur_extract_metadata(cd)
    IN  IF CreateRaises(cd) THEN <<>>
        ELSE <<CurriculumChunk(
                 [cycle |-> metadata.cycle,
                  grades |-> metadata.grades,
                  subject |-> metadata.subject,
                  section_type |-> metadata.section_type,
                  topic |-> metadata.topic,
                  subtopic |-> metadata.subtopic,
                  is_cycle_wide |-> metadata.is_cycle_wide,
                  chunk_text |-> cd.chunk_text,
                  page_start |-> Max(PageNumbers(cd.pages)),
                  page_end |-> Min(PageNumbers(cd.pages)),
                  source_paragraph_id |->
                      metadata.subject \o <<"_">> \o metadata.topic \o <<"_">>
                      \o IntStr(Get(cd, "line_start", 0)),
                  doc_id |-> Get(cd, "doc_id", <<"u","n","k","n","o","w","n">>),
                  lang |-> s_fr])>>

\* CurriculumChunker._create_chunk: a sequence holding the chunk, or empty
\* when the body raised, the exception was printed and None is returned
Cur_create_chunk(cd) ==
    LET metadata == Cur_extract_metadata(cd)
    IN  IF CreateRaises(cd) THEN <<>>
        ELSE <<CurriculumChunk(
                 [cycle |-> metadata.cycle,
                  grades |-> metadata.grades,
                  subject |-> metadata.subject,
                  section_type |-> metadata.section_type,
                  topic |-> metadata.topic,
                  subtopic |-> metadata.subtopic,
                  is_cycle_wide |-> metadata.is_cycle_wide,
                  chunk_text |-> cd.chunk_text,
                  page_start |-> Min(PageNumbers(cd.pages)),
                  page_end |-> Max(PageNumbers(cd.pages)),
                  source_paragraph_id |->
                      metadata.subject \o <<"_">> \o metadata.topic \o <<"_">>
                      \o IntStr(Get(cd, "line_start", 0)),
                  doc_id |-> Get(cd, "doc_id", <<"u","n","k","n","o","w","n">>),
                  lang |-> s_fr])>>

\* _create_chunk that builds a chunk where the body raises
TG_create_chunk_NoRaise(cd) ==
    LET metadata == TG_extract_metadata(cd)
    IN  <<TeachingGuideChunk(
             [doc_id |-> Get(cd, "doc_id", <<"u","n","k","n","o","w","n">>),
              guide_type |-> metadata.guide_type,
              applicable_grades |-> metadata.applicable_grades,
              topic |-> metadata.topic,
              subtopic |-> metadata.subtopic,
              section_header |-> metadata.section_header,
              chunk_text |-> cd.chunk_text,
              page_start |-> Min(PageNumbers(cd.pages) \cup {NoneInt}),
              page_end |-> Max(PageNumbers(cd.pages) \cup {NoneInt}),
              is_general |-> metadata.is_general,
              lang |-> s_fr])>>

\* TeachingGuideChunker._create_chunk
TG_create_chunk(cd) ==
    LET metadata == TG_extract_metadata(cd)
    IN  IF CreateRaises(cd) THEN <<>>
        ELSE <<TeachingGuideChunk(
                 [doc_id |-> Get(cd, "doc_id", <<"u","n","k","n","o","w","n">>),
                  guide_type |-> metadata.guide_type,
                  applicable_grades |-> metadata.applicable_grades,
                  topic |-> metadata.topic,
                  subtopic |-> metadata.subtopic,
                  section_header |-> metadata.section_header,
                  chunk_text |-> cd.chunk_text,
                  page_start |-> Min(PageNumbers(cd.pages)),
                  page_end |-> Max(PageNumbers(cd.pages)),
                  is_general |-> metadata.is_general,
                  lang |-> s_fr])>>

\* chunk_document: Level A, then B, then C, then assembly, in document order
Cur_leaves(pages_data, did) ==
    LET a == Cur_level_a_chunking(pages_data, did)
        b == Flatten([i \in 1..Len(a) |-> Cur_level_b_chunking(a[i])])
    IN  Flatten([i \in 1..Len(b) |-> LevelCChunking(b[i])])
Cur_chunk_document(pages_data, did) ==
    LET leaves == Cur_leaves(pages_data, did)
    IN  Flatten([i \in 1..Len(leaves) |-> Cur_create_chunk(leaves[i])])

TG_leaves(pages_data, did) ==
    LET a == TG_level_a_chunking(pages_data, did)
        b == Flatten([i \in 1..Len(a) |-> TG_level_b_chunking(a[i])])
    IN  Flatten([i \in 1..Len(b) |-> LevelCChunking(b[i])])
TG_chunk_document(pages_data, did) ==
    LET leaves == TG_leaves(pages_data, did)
    IN  Flatten([i \in 1..Len(leaves) |-> TG_create_chunk(leaves[i])])

(***************************************************************************)
(* Metadata builders: enrichment, validation, identifiers.                 *)
(***************************************************************************)
\* teaching_guides MetadataBuilder.detect_categories
RECURSIVE MatchedCategories(_, _)
MatchedCategories(cats, text_lower) ==
    IF cats = <<>> THEN <<>>
    ELSE (IF \E k \in 1..Len(Head(cats)[2]) :
                 SearchIC(Head(cats)[2][k], text_lower)
          THEN <<Head(cats)[1]>> ELSE <<>>)
         \o MatchedCategories(Tail(cats), text_lower)
\* detect_categories without the fallback to 'general'
detect_categories_NoFallback(text) ==
    MatchedCategories(category_patterns_ic, Lower(text))

\* detect_categories keeping the first matching category only
detect_categories_FirstMatch(text) ==
    LET categories_found == MatchedCategories(category_patterns_ic, Lower(text))
    IN  IF categories_found = <<>> THEN <<"general">>
        ELSE <<categories_found[1]>>

detect_categories(text) ==
    LET categories == MatchedCategories(category_patterns_ic, Lower(text))
    IN  IF categories = <<>> THEN <<"general">> ELSE categories

\* teaching_guides MetadataBuilder.enrich_chunk_metadata: the chunk it is
\* given is updated in place and returned
TG_enrich_chunk_metadata(c) ==
    IF c.applicable_categories = <<>>
    THEN [c EXCEPT !.applicable_categories = detect_categories(c.chunk_text)]
    ELSE c

\* [value for key, value in mapping if key in text_lower]
RECURSIVE MappedValues(_, _)
MappedValues(mapping, text_lower) ==
    IF mapping = <<>> THEN <<>>
    ELSE (IF Contains(text_lower, Head(mapping)[1])
          THEN <<Head(mapping)[2]>> ELSE <<>>)
         \o MappedValues(Tail(mapping), text_lower)

\* s.strip(':')
RECURSIVE StripColons(_)
StripColons(s) ==
    IF s # <<>> /\ Head(s) = ":" THEN StripColons(Tail(s))
    ELSE IF s # <<>> /\ s[Len(s)] = ":" THEN StripColons(SubSeq(s, 1, Len(s) - 1))
    ELSE s

NoTopicChar == SentenceEnd \cup {"\n"}
\* re.findall(r'^([A-Z][^.!?\n]*?)(?=\n|$)', text, re.MULTILINE): the lines
\* that start with a capital and hold no sentence punctuation
RECURSIVE SelectLines(_)
SelectLines(lines) ==
    IF lines = <<>> THEN <<>>
    ELSE (IF /\ Head(lines) # <<>>
             /\ Head(lines)[1] \in AsciiUpper
             /\ \A i \in 1..Len(Head(lines)) : Head(lines)[i] \notin SentenceEnd
          THEN <<Head(lines)>> ELSE <<>>)
         \o SelectLines(Tail(lines))
\* re.findall(r'([A-Z][^.!?\n]*?:)', text): leftmost non-overlapping runs
\* from a capital to the next colon
ColonEnd(s, i) ==
    IF \E j \in (i + 1)..Len(s) : s[j] = ":"
    THEN LET j == Min({k \in (i + 1)..Len(s) : s[k] = ":"})
         IN  IF \A k \in (i + 1)..(j - 1) : s[k] \notin NoTopicChar THEN j ELSE 0
    ELSE 0
RECURSIVE ColonMatches(_, _)
ColonMatches(s, from) ==
    LET starts == {i \in from..Len(s) : s[i] \in AsciiUpper /\ ColonEnd(s, i) > 0}
    IN  IF starts = {} THEN <<>>
        ELSE <<SubSeq(s, Min(starts), ColonEnd(s, Min(starts)))>>
             \o ColonMatches(s, ColonEnd(s, Min(starts)) + 1)
\* the first match whose cleaned form has more than 10 and fewer than 100
\* characters, as a sequence of zero or one topic
RECURSIVE FirstTopic(_)
FirstTopic(matches) ==
    IF matches = <<>> THEN <<>>
    ELSE LET clean_topic == StripColons(Strip(Head(matches)))
         IN  IF StrLen(clean_topic) > 10 /\ StrLen(clean_topic) < 100
             THEN <<clean_topic>>
             ELSE FirstTopic(Tail(matches))
ExtractTopic(text) ==
    IF FirstTopic(SelectLines(SplitLines(text))) # <<>>
    THEN FirstTopic(SelectLines(SplitLines(text)))
    ELSE FirstTopic(ColonMatches(text, 1))

\* the value the loop reaches first, before its break: zero or one value
FirstOf(q) == IF q = <<>> THEN <<>> ELSE <<q[1]>>

cycle_capture == Lit(<<"c","y","c","l","e">>) \o Star(WS) \o One({"1","2","3","4"})

\* ingestion MetadataBuilder._extract_from_text: each key maps to a sequence
\* holding the value, or to the empty sequence when the key is not set
Cur_extract_from_text(text) ==
    LET text_lower == Lower(text)
    IN  [cycle |-> IF Search(cycle_capture, text_lower)
                   THEN <<FirstNumber(MatchText(cycle_capture, text_lower))>>
                   ELSE <<>>,
         grades |-> MappedValues(grade_mappings, text_lower),
         subject |-> FirstOf(MappedValues(subject_mappings, text_lower)),
         section_type |->
             FirstOf(MappedValues(section_type_mappings, text_lower)),
         topic |-> ExtractTopic(text),
         is_cycle_wide |->
             \E k \in 1..Len(cycle_wide_indicators) :
                 Contains(text_lower, cycle_wide_indicators[k])]

SeqToSet(q) == {q[i] : i \in 1..Len(q)}
\* the orders in which list(set(...)) may return the elements of S
Orderings(S) ==
    {f \in [1..Cardinality(S) -> S] : \A i, j \in 1..Cardinality(S) :
                                          f[i] = f[j] => i = j}

\* enrich_chunk_metadata setting is_cycle_wide from the indicator phrases
\* alone
Cur_enrich_chunk_metadata_IndicatorOnly(c, order) ==
    LET am == Cur_extract_from_text(c.chunk_text)
        grades == IF am.grades # <<>> THEN order ELSE c.grades
    IN  [c EXCEPT
           !.grades = grades,
           !.cycle = IF am.cycle # <<>> THEN am.cycle[1] ELSE @,
           !.subject = IF am.subject # <<>> THEN am.subject[1] ELSE @,
           !.section_type = IF am.section_type # <<>> THEN am.section_type[1] ELSE @,
           !.topic = IF am.topic # <<>> THEN am.topic[1] ELSE @,
           !.subtopic = @,
           !.is_cycle_wide = am.is_cycle_wide]

\* ingestion MetadataBuilder.enrich_chunk_metadata; order is the order that
\* list(set(...)) gives the merged grades (unspecified in Python)
Cur_enrich_chunk_metadata(c, order) ==
    LET am == Cur_extract_from_text(c.chunk_text)
        grades == IF am.grades # <<>> THEN order ELSE c.grades
    IN  [c EXCEPT
           !.grades = grades,
           !.cycle = IF am.cycle # <<>> THEN am.cycle[1] ELSE @,
           !.subject = IF am.subject # <<>> THEN am.subject[1] ELSE @,
           !.section_type = IF am.section_type # <<>> THEN am.section_type[1] ELSE @,
           !.topic = IF am.topic # <<>> THEN am.topic[1] ELSE @,
           !.subtopic = @,
           !.is_cycle_wide = (Len(grades) = 0 \/ am.is_cycle_wide)]
\* the grade orders enrichment may produce for chunk c
Cur_enrich_orders(c) ==
    LET am == Cur_extract_from_text(c.chunk_text)
    IN  IF am.grades # <<>>
        THEN Orderings(SeqToSet(c.grades) \cup SeqToSet(am.grades))
        ELSE {c.grades}

\* "value is None or (isinstance(value, str) and not value.strip())"
Blank(v) == v = NoneVal \/ Strip(v) = <<>>

\* ingestion MetadataBuilder.validate_chunk
Cur_validate_chunk(c) ==
    /\ ~Blank(c.cycle) /\ ~Blank(c.subject) /\ ~Blank(c.section_type)
    /\ ~Blank(c.topic) /\ ~Blank(c.subtopic) /\ ~Blank(c.chunk_text)
    /\ c.page_start # NoneInt /\ c.page_end # NoneInt
    /\ ~Blank(c.source_paragraph_id)
    /\ ~(~c.is_cycle_wide /\ c.grades = <<>>)
    /\ ~(c.page_start > c.page_end)

\* ingestion SupabaseClient.validate_chunk_data
validate_chunk_data(c) ==
    /\ ~Blank(c.id) /\ ~Blank(c.cycle) /\ ~Blank(c.subject)
    /\ ~Blank(c.section_type) /\ ~Blank(c.topic) /\ ~Blank(c.subtopic)
    /\ ~Blank(c.chunk_text)
    /\ c.page_start # NoneInt /\ c.page_end # NoneInt
    /\ ~Blank(c.source_paragraph_id) /\ ~Blank(c.doc_id)
    /\ ~(~c.is_cycle_wide /\ c.grades = <<>>)
    /\ ~(c.page_start > c.page_end)
    /\ ~(StrLen(Strip(c.chunk_text)) < MinChunkChars)

\* the validator rejecting a chunk that starts and ends on the same page
TG_validate_chunk_StrictPages(c) ==
    /\ ~Blank(c.doc_id) /\ ~Blank(c.guide_type) /\ ~Blank(c.topic)
    /\ ~Blank(c.subtopic) /\ ~Blank(c.section_header) /\ ~Blank(c.chunk_text)
    /\ c.page_start # NoneInt /\ c.page_end # NoneInt
    /\ ~(~c.is_general /\ c.applicable_grades = <<>>)
    /\ ~(c.page_start >= c.page_end)
    /\ ~(StrLen(Strip(c.chunk_text)) < MinChunkChars)

\* teaching_guides MetadataBuilder.validate_chunk
TG_validate_chunk(c) ==
    /\ ~Blank(c.doc_id) /\ ~Blank(c.guide_type) /\ ~Blank(c.topic)
    /\ ~Blank(c.subtopic) /\ ~Blank(c.section_header) /\ ~Blank(c.chunk_text)
    /\ c.page_start # NoneInt /\ c.page_end # NoneInt
    /\ ~(~c.is_general /\ c.applicable_grades = <<>>)
    /\ ~(c.page_start > c.page_end)
    /\ ~(StrLen(Strip(c.chunk_text)) < MinChunkChars)

\* hashlib.md5(s.encode()).hexdigest()[:16]: the digest is not computed; it
\* is represented by the string it digests (equal strings, equal digests)
Md5Hex16(str) == <<"md5:">> \o str

\* generate_unique_id salted with the number of the run
Cur_generate_unique_id_Salted(c) ==
    Md5Hex16(c.doc_id \o <<"_">> \o c.subject \o <<"_">> \o c.topic \o <<"_">>
             \o IntStr(c.page_start) \o <<"_">> \o c.source_paragraph_id
             \o <<"_">> \o IntStr(run))

\* ingestion MetadataBuilder.generate_unique_id
Cur_generate_unique_id(c) ==
    Md5Hex16(c.doc_id \o <<"_">> \o c.subject \o <<"_">> \o c.topic \o <<"_">>
             \o IntStr(c.page_start) \o <<"_">> \o c.source_paragraph_id)

\* teaching_guides MetadataBuilder.generate_unique_id
TG_generate_unique_id(c) ==
    Md5Hex16(c.doc_id \o <<"_">> \o c.guide_type \o <<"_">> \o c.topic \o <<"_">>
             \o IntStr(c.page_start))

(***************************************************************************)
(* Specification SpecDoc: chunk_document over one document, then either a  *)
(* second run over the same document or, for teaching guides, the          *)
(* enrich-and-validate loop of parse_ocr_to_chunks.                        *)
(***************************************************************************)
l_volet == <<"V","o","l","e","t"," ","1"," ">>
l_chapitre == <<" ","C","h","a","p","i","t","r","e"," ","2">>
l_progression == <<"R","e","p","e_","r","e","s"," ","d","e"," ","p","r","o","g","r","e","s","s","i","o","n">>
l_short == <<Fill(40), ".">>
l_mid == <<Fill(160), ".">>
l_long == <<Fill(310), ".">>
l_marks == <<"C","M","1"," ","v","i","s","u","a","l"," ">> \o <<Fill(60), ".">>
DocLines == <<l_volet, l_chapitre, l_progression, l_short, l_mid, l_long, l_marks>>

\* the documents: 1..MaxLines catalogue lines on one page (numbered 1), or
\* cut into two pages (numbered 1 and 3); and the empty page list
LineSeqs == UNION {[1..k -> 1..Len(DocLines)] : k \in 1..MaxLines}
PageText(ls, from, to) == Join(<<"\n">>, [i \in 1..(to - from + 1) |-> DocLines[ls[from + i - 1]]])
DocPages(ls, cut) ==
    IF cut = 0
    THEN <<[page_number |-> 1, text |-> PageText(ls, 1, Len(ls))]>>
    ELSE <<[page_number |-> 1, text |-> PageText(ls, 1, cut)],
           [page_number |-> 3, text |-> PageText(ls, cut + 1, Len(ls))]>>
Documents ==
    {<<>>} \cup {DocPages(ls, cut) : <<ls, cut>> \in
                    {x \in LineSeqs \X (0..(MaxLines - 1)) : x[2] < Len(x[1])}}

\* the doc_id handed to chunk_document: "d1", and for the documents of one
\* line also a doc_id of one blank
DocIds(pgs) ==
    IF Len(pgs) = 1 /\ Len(SplitLines(pgs[1].text)) = 1 THEN {s_d1, <<" ">>}
    ELSE {s_d1}

InitDoc ==
    /\ pc = "d_start"
    /\ variant \in Variants
    /\ pages \in Documents
    /\ doc_id \in DocIds(pages)
    /\ sectionsA = <<>> /\ sectionsB = <<>> /\ chunks = <<>> /\ chunks2 = <<>>
    /\ run = 0 /\ ids = <<>> /\ ids2 = <<>>
    /\ NoChunk
    /\ NoLevelC
    /\ NoDriver /\ NoStore

LevelA(v, pgs, did) ==
    IF v = "curriculum" THEN Cur_level_a_chunking(pgs, did)
    ELSE TG_level_a_chunking(pgs, did)
LevelB(v, a) ==
    IF v = "curriculum"
    THEN Flatten([i \in 1..Len(a) |-> Cur_level_b_chunking(a[i])])
    ELSE Flatten([i \in 1..Len(a) |-> TG_level_b_chunking(a[i])])
ChunkDocumentOf(v, pgs, did) ==
    IF v = "curriculum" THEN Cur_chunk_document(pgs, did)
    ELSE TG_chunk_document(pgs, did)
GenerateUniqueId(v, c) ==
    IF v = "curriculum" THEN Cur_generate_unique_id(c) ELSE TG_generate_unique_id(c)
UniqueIds(v, cs) == [i \in 1..Len(cs) |-> GenerateUniqueId(v, cs[i])] \o <<>>

\* chunker.chunk_document(pages, doc_id), then generate_unique_id of every
\* chunk: the first run
ChunkDocument ==
    /\ pc = "d_start"
    /\ sectionsA' = LevelA(variant, pages, doc_id)
    /\ sectionsB' = LevelB(variant, LevelA(variant, pages, doc_id))
    /\ chunks' = ChunkDocumentOf(variant, pages, doc_id)
    /\ ids' = UniqueIds(variant, ChunkDocumentOf(variant, pages, doc_id))
    /\ run' = run + 1
    /\ pc' = "d_chunked"
    /\ UNCHANGED <<input_vars, run_vars, levelc_vars, chunks2, ids2, chunk_vars>>

\* a second run over the unchanged document
ChunkDocumentAgain ==
    /\ pc = "d_chunked"
    /\ chunks2' = ChunkDocumentOf(variant, pages, doc_id)
    /\ ids2' = UniqueIds(variant, ChunkDocumentOf(variant, pages, doc_id))
    /\ run' = run + 1
    /\ pc' = "d_rerun"
    /\ UNCHANGED <<input_vars, run_vars, levelc_vars, sectionsA, sectionsB, chunks, ids,
                   chunk_vars>>

\* parse_ocr_to_chunks, lines 70-77: enrich every chunk, keep the valid ones;
\* enrichment updates the chunk objects of chunks in place
EnrichAndValidate ==
    /\ pc = "d_chunked"
    /\ variant = "guide"
    /\ enriched' = [i \in 1..Len(chunks) |-> TG_enrich_chunk_metadata(chunks[i])]
    /\ chunks' = [i \in 1..Len(chunks) |-> TG_enrich_chunk_metadata(chunks[i])]
    /\ verdict' = [i \in 1..Len(chunks) |->
                      TG_validate_chunk(TG_enrich_chunk_metadata(chunks[i]))]
    /\ pc' = "d_parsed"
    /\ UNCHANGED <<input_vars, run_vars, levelc_vars, sectionsA, sectionsB, chunks2, run, ids,
                   ids2, chunk_data, chunk, detected_categories>>

NextDoc == ChunkDocument \/ ChunkDocumentAgain \/ EnrichAndValidate

SpecDoc == InitDoc /\ [][NextDoc]_vars

\* a loop that keeps every chunk, whatever the validator said
Keep_All(cs, oks) == cs
\* valid_chunks, as parse_ocr_to_chunks returns it
RECURSIVE Keep(_, _)
Keep(cs, oks) ==
    IF cs = <<>> THEN <<>>
    ELSE (IF Head(oks) THEN <<Head(cs)>> ELSE <<>>) \o Keep(Tail(cs), Tail(oks))
valid_chunks == Keep(enriched, verdict)

(***************************************************************************)
(* Properties of SpecDoc.                                                  *)
(***************************************************************************)
Chunked == pc \in {"d_chunked", "d_rerun", "d_parsed"}
DocText == CombinePagesText(pages)
DocLinesOf == SplitLines(DocText)
MajorPatterns ==
    IF variant = "curriculum" THEN Cur_subject_patterns_ic ELSE TG_chapter_patterns_ic
MinorPatterns ==
    IF variant = "curriculum" THEN Cur_section_patterns_ic ELSE TG_section_patterns_ic
NoMajorBoundary == Boundaries(DocLinesOf, MajorPatterns) = <<>>
HeaderLess == NoMajorBoundary /\ Boundaries(DocLinesOf, MinorPatterns) = <<>>
\* the label Level A gives a section: subject (curriculum), topic (guides)
LabelOf(sec) == IF variant = "curriculum" THEN sec.subject ELSE sec.topic

\* C2: every chunk chunk_document returns for a non-empty page list has a
\* chunk_text of at least 50 characters once trimmed and page_start <= page_end.
C2_ChunkInvariants ==
    (Chunked /\ pages # <<>>) =>
        \A i \in 1..Len(chunks) :
            /\ StrLen(Strip(chunks[i].chunk_text)) >= MinChunkChars
            /\ chunks[i].page_start <= chunks[i].page_end

C2_Witness ==
    /\ pc = "d_chunked"
    /\ variant = "curriculum"
    /\ Len(pages) = 2
    /\ Len(chunks) >= 2
    /\ chunks[1].page_start < chunks[1].page_end

\* the fields generate_unique_id may read: doc_id, subject (curriculum) or
\* guide_type (guides), topic, page_start and, for curriculum chunks,
\* source_paragraph_id
IdKey(c) ==
    IF variant = "curriculum"
    THEN <<c.doc_id, c.subject, c.topic, c.page_start, c.source_paragraph_id>>
    ELSE <<c.doc_id, c.guide_type, c.topic, c.page_start>>

C6_GeneralFallback ==
    (Chunked /\ NoMajorBoundary) =>
        /\ Len(sectionsA) = 1
        /\ LabelOf(sectionsA[1]) = s_General
        /\ sectionsA[1].text = DocText
        /\ (HeaderLess /\ Tokens(DocText) >= target_min_tokens) =>
              /\ Len(chunks) >= 1
              /\ \A i \in 1..(Len(chunks) - 1) :
                    /\ Tokens(chunks[i].chunk_text) >= target_min_tokens
                    /\ Tokens(chunks[i].chunk_text) <= target_max_tokens

\* C7: a header-less document of fewer than 50 tokens yields no chunk, and a
\* Level-B section of fewer than 50 tokens yields no Level-C chunk.
C7_SmallSectionsDropped ==
    Chunked =>
        /\ (HeaderLess /\ Tokens(DocText) < MinChunkTokens) => chunks = <<>>
        /\ \A i \in 1..Len(sectionsB) :
              Tokens(sectionsB[i].text) < MinChunkTokens =>
                  LevelCChunking(sectionsB[i]) = <<>>

C7_Witness ==
    /\ pc = "d_chunked"
    /\ variant = "guide"
    /\ HeaderLess
    /\ Tokens(DocText) > 0
    /\ Tokens(DocText) < MinChunkTokens
    /\ Len(sectionsB) = 1
    /\ chunks = <<>>

C7_WitnessSection ==
    /\ pc = "d_chunked"
    /\ Len(sectionsB) >= 2
    /\ Len(chunks) >= 1
    /\ \E i \in 1..Len(sectionsB) :
          /\ Tokens(sectionsB[i].text) > 0
          /\ Tokens(sectionsB[i].text) < MinChunkTokens

\* no keyword of any category group occurs in the text, case-insensitively
NoKeyword(text) ==
    \A g \in 1..Len(category_patterns) :
        \A k \in 1..Len(category_patterns[g][2]) :
            ~Contains(Lower(text), Lower(PatStr(category_patterns[g][2][k])))

\* C4: every chunk parse_ocr_to_chunks returns has a non-empty
\* applicable_categories, which is exactly <<"general">> when no keyword of
\* any group occurs in its text.
C4_CategoriesNonEmpty ==
    pc = "d_parsed" =>
        \A i \in 1..Len(valid_chunks) :
            /\ valid_chunks[i].applicable_categories # <<>>
            /\ NoKeyword(valid_chunks[i].chunk_text) =>
                  valid_chunks[i].applicable_categories = <<"general">>

C4_Witness ==
    /\ pc = "d_parsed"
    /\ Len(valid_chunks) >= 2
    /\ \E i \in 1..Len(valid_chunks) : NoKeyword(valid_chunks[i].chunk_text)
    /\ \E i \in 1..Len(valid_chunks) : ~NoKeyword(valid_chunks[i].chunk_text)

(***************************************************************************)
(* Specification SpecMeta: one Level-C leaf through _create_chunk,         *)
(* enrich_chunk_metadata and validate_chunk; for teaching guides also      *)
(* detect_categories on the text of the leaf.                              *)
(***************************************************************************)
\* the cycle markers a text may open with
CycleMarks ==
    << <<>>, <<"C","y","c","l","e"," ","1">>, <<"c","y","c","l","e"," ","2">>, <<"C","y","c","l","e"," ","3">>,
       <<"c","y","c","l","e"," "," ","4">>, <<"C","y","c","l","e"," ","4"," ","c","y","c","l","e"," ","2">> >>
\* the grade tokens as they are written in a text
GradeTokens ==
    <<<<"C","P">>, <<"C","E","1">>, <<"C","E","2">>, <<"C","M","1">>, <<"C","M","2">>, <<"6","e">>, <<"5","e">>, <<"4","e">>, <<"3","e">>>>
\* keywords of the category groups, as they are written in a text
KeywordTokens ==
    <<<<"v","i","s","u","a","l">>, <<"D","i","a","g","r","a","m">>, <<"p","a","c","e">>, <<"e","x","t","r","a"," ","t","i","m","e">>,
      <<"h","a","n","d","s","-","o","n">>, <<"q","u","i","c","k">>, <<"l","o","g","i","c">>, <<"f","o","c","u","s">>>>
s_tout_le_cycle == <<"t","o","u","t"," ","l","e"," ","c","y","c","l","e">>

\* the words of catalogue whose index is in S, in catalogue order
RECURSIVE WordsFrom(_, _, _)
WordsFrom(catalogue, S, i) ==
    IF i > Len(catalogue) THEN <<>>
    ELSE (IF i \in S THEN <<catalogue[i]>> ELSE <<>>) \o WordsFrom(catalogue, S, i + 1)
MarkSets(n) == {S \in SUBSET (1..n) : Cardinality(S) <= MaxMarks}
\* the parts that are not empty, separated by single spaces
Phrase(parts) ==
    Join(<<" ">>, SelectSeq(parts, LAMBDA w : w # <<>>))
MetaTexts(v) ==
    IF v = "curriculum"
    THEN {Phrase(<<CycleMarks[m]>> \o WordsFrom(GradeTokens, G, 1)
                 \o <<ind, <<Fill(60), ".">>>>) :
             m \in 1..Len(CycleMarks), G \in MarkSets(Len(GradeTokens)),
             ind \in {<<>>, s_tout_le_cycle}}
    ELSE {Phrase(WordsFrom(GradeTokens, G, 1) \o WordsFrom(KeywordTokens, K, 1)
                 \o <<<<Fill(60), ".">>>>) :
             G \in {S \in MarkSets(Len(GradeTokens)) : Cardinality(S) <= 1},
             K \in MarkSets(Len(KeywordTokens))}
\* the leaf _level_c_chunking emits for a section holding text
MetaLeaf(v, text) ==
    LeafOf(PlainSection(v, text, <<[page_number |-> 1, text |-> text]>>, s_d1),
           text, Tokens(text))

InitMeta ==
    /\ pc = "m_start"
    /\ variant \in Variants
    /\ \E text \in MetaTexts(variant) : chunk_data = MetaLeaf(variant, text)
    /\ chunk = <<>> /\ enriched = <<>> /\ verdict = <<>>
    /\ detected_categories = <<>>
    /\ NoDocument /\ NoLevelC /\ NoDriver /\ NoStore

\* _create_chunk(chunk_data)
CreateChunk ==
    /\ pc = "m_start"
    /\ chunk' = IF variant = "curriculum" THEN Cur_create_chunk(chunk_data)
                ELSE TG_create_chunk(chunk_data)
    /\ pc' = "m_created"
    /\ UNCHANGED <<input_vars, run_vars, levelc_vars, doc_vars, chunk_data, enriched, verdict,
                   detected_categories>>

\* metadata_builder.enrich_chunk_metadata(chunk): the curriculum builder
\* returns a copy, the teaching-guide builder updates the chunk it is given
EnrichChunk ==
    /\ pc = "m_created"
    /\ chunk # <<>>
    /\ IF variant = "curriculum"
       THEN /\ \E order \in Cur_enrich_orders(chunk[1]) :
                  enriched' = <<Cur_enrich_chunk_metadata(chunk[1], order)>>
            /\ chunk' = chunk
       ELSE /\ enriched' = <<TG_enrich_chunk_metadata(chunk[1])>>
            /\ chunk' = <<TG_enrich_chunk_metadata(chunk[1])>>
    /\ pc' = "m_enriched"
    /\ UNCHANGED <<input_vars, run_vars, levelc_vars, doc_vars, chunk_data, verdict,
                   detected_categories>>

\* metadata_builder.validate_chunk(enriched)
ValidateEnriched ==
    /\ pc = "m_enriched"
    /\ verdict' = IF variant = "curriculum" THEN <<Cur_validate_chunk(enriched[1])>>
                  ELSE <<TG_validate_chunk(enriched[1])>>
    /\ pc' = "m_validated"
    /\ UNCHANGED <<input_vars, run_vars, levelc_vars, doc_vars, chunk_data, chunk, enriched,
                   detected_categories>>

\* metadata_builder.detect_categories(text) on the text of the leaf
DetectCategories ==
    /\ pc = "m_start"
    /\ variant = "guide"
    /\ detected_categories' = detect_categories(chunk_data.chunk_text)
    /\ pc' = "m_detected"
    /\ UNCHANGED <<input_vars, run_vars, levelc_vars, doc_vars, chunk_data, chunk, enriched,
                   verdict>>

NextMeta == CreateChunk \/ EnrichChunk \/ ValidateEnriched \/ DetectCategories

SpecMeta == InitMeta /\ [][NextMeta]_vars

(***************************************************************************)
(* Properties of SpecMeta.                                                 *)
(***************************************************************************)
Created == pc \in {"m_created", "m_enriched", "m_validated"} /\ chunk # <<>>
Enriched == pc \in {"m_enriched", "m_validated"}
GradeOrCycleWide(c) == c.is_cycle_wide \/ Len(c.grades) > 0

\* C3: a curriculum chunk, as assembled by _create_chunk and as returned by
\* enrich_chunk_metadata, is cycle-wide or has at least one grade, whatever
\* the cycle (1..4) and the grade tokens in its text.
C3_GradesOrCycleWide ==
    variant = "curriculum" =>
        /\ Created => GradeOrCycleWide(chunk[1])
        /\ Enriched => GradeOrCycleWide(enriched[1])

C3_Witness ==
    /\ variant = "curriculum"
    /\ pc = "m_enriched"
    /\ chunk[1].cycle = <<"1">>
    /\ chunk[1].grades = <<>>
    /\ enriched[1].grades = <<>>
    /\ enriched[1].is_cycle_wide

\* the canonical labels of the grade tokens that occur in text, whatever
\* their case
GradeTokensIn(text) ==
    {grade_mappings[k][2] : k \in {j \in 1..Len(grade_mappings) :
                                      Contains(Lower(text), grade_mappings[j][1])}}
HasCycleMarker(text) == Search(cycle_capture, Lower(text))
FirstCycleDigit(text) == FirstNumber(MatchText(cycle_capture, Lower(text)))

\* C9 as stated: when the text of a curriculum chunk holds at least one grade
\* token, the grades _create_chunk extracts are exactly the grade tokens of
\* the text, is_cycle_wide is false, and the cycle is the digit of the first
\* 'cycle <digit>' marker.
C9_GradesFromText ==
    (variant = "curriculum" /\ Created
       /\ GradeTokensIn(chunk[1].chunk_text) # {}) =>
        /\ SeqToSet(chunk[1].grades) = GradeTokensIn(chunk[1].chunk_text)
        /\ ~chunk[1].is_cycle_wide
        /\ HasCycleMarker(chunk[1].chunk_text) =>
              chunk[1].cycle = FirstCycleDigit(chunk[1].chunk_text)

\* the scenario of C9: a text holding CM1, CM2 and 'Cycle 3' and no other
\* grade token gives grades {CM1, CM2}, cycle "3", is_cycle_wide false
C9_Scenario ==
    (variant = "curriculum" /\ Created
       /\ GradeTokensIn(chunk[1].chunk_text) = {s_CM1, s_CM2}
       /\ HasCycleMarker(chunk[1].chunk_text)
       /\ FirstCycleDigit(chunk[1].chunk_text) = s_3) =>
        /\ SeqToSet(chunk[1].grades) = {s_CM1, s_CM2}
        /\ chunk[1].cycle = s_3
        /\ ~chunk[1].is_cycle_wide

\* the categories one of whose keywords occurs in text, whatever the case
CategoriesIn(text) ==
    {category_patterns[g][1] :
        g \in {h \in 1..Len(category_patterns) :
                  \E k \in 1..Len(category_patterns[h][2]) :
                      Contains(Lower(text),
                               Lower(PatStr(category_patterns[h][2][k])))}}

\* C10: detect_categories returns every category one of whose keywords
\* occurs in the text, each once and nothing else, and returns 'general'
\* alone exactly when no keyword occurs.
C10_MultiLabel ==
    pc = "m_detected" =>
        /\ Cardinality(SeqToSet(detected_categories)) = Len(detected_categories)
        /\ CategoriesIn(chunk_data.chunk_text) # {} =>
              SeqToSet(detected_categories) = CategoriesIn(chunk_data.chunk_text)
        /\ (detected_categories = <<"general">>)
               <=> (CategoriesIn(chunk_data.chunk_text) = {})
        /\ "general" \in SeqToSet(detected_categories) =>
              Len(detected_categories) = 1

C10_Witness ==
    /\ pc = "m_detected"
    /\ Len(detected_categories) = 2
    /\ detected_categories[1] = "slow_processing"
    /\ detected_categories[2] = "high_energy"

(***************************************************************************)
(* Specification SpecValidate: one assembled chunk handed to a validator:  *)
(* ingestion MetadataBuilder.validate_chunk, ingestion                     *)
(* SupabaseClient.validate_chunk_data, or teaching_guides                  *)
(* MetadataBuilder.validate_chunk.                                         *)
(***************************************************************************)
\* n characters that are not whitespace
RECURSIVE Xs(_)
Xs(n) == IF n = 0 THEN <<>> ELSE <<"x">> \o Xs(n - 1)
\* texts of 1, 40, 45, 49, 50, 51 and 119 characters
ValidateTexts ==
    {<<"x">>, <<Fill(20), ".">>, <<Fill(60), ".">>}
    \cup {<<Fill(20), " ">> \o Xs(n) : n \in {5, 9, 10, 11}}
\* whitespace around the text
Margins == {<<>>, <<" ", " ", " ", " ", " ", " ">>, <<"\n">>}
PageRanges == {<<1, 1>>, <<1, 2>>, <<2, 1>>}
\* (grades, is_cycle_wide or is_general)
GradeCases == {<<<<>>, TRUE>>, <<<<>>, FALSE>>, <<<<s_CM1>>, FALSE>>}
Topics == {s_Volet1, <<" ">>}

ValidateChunks(v) ==
    {IF v = "curriculum"
     THEN CurriculumChunk(
              [cycle |-> s_3, grades |-> g[1], subject |-> s_Volet1,
               section_type |-> s_general, topic |-> t, subtopic |-> t,
               is_cycle_wide |-> g[2], chunk_text |-> m \o text \o m,
               page_start |-> pr[1], page_end |-> pr[2],
               source_paragraph_id |-> s_Volet1 \o <<"_">> \o t \o <<"_", "0">>,
               doc_id |-> s_d1, lang |-> s_fr])
     ELSE TeachingGuideChunk(
              [doc_id |-> s_d1, guide_type |-> s_pedagogical,
               applicable_grades |-> g[1], topic |-> t, subtopic |-> t,
               section_header |-> s_General, chunk_text |-> m \o text \o m,
               page_start |-> pr[1], page_end |-> pr[2], is_general |-> g[2],
               lang |-> s_fr]) :
        text \in ValidateTexts, m \in Margins, pr \in PageRanges,
        g \in GradeCases, t \in Topics}

\* a required field of a teaching-guide chunk left blank, empty or None
\* ("none": no field)
StringFields == {"doc_id", "guide_type", "topic", "subtopic", "section_header",
                 "chunk_text"}
PageFields == {"page_start", "page_end"}
Blankings(v) ==
    {<<"none", <<>>>>}
    \cup (IF v = "guide"
          THEN (StringFields \X {<<" ">>, <<>>, NoneVal})
               \cup {<<f, NoneInt>> : f \in PageFields}
          ELSE {})
Blanked(c, b) == IF b[1] = "none" THEN c ELSE [c EXCEPT ![b[1]] = b[2]]

InitValidate ==
    /\ pc = "v_start"
    /\ variant \in Variants
    /\ \E c \in ValidateChunks(variant), with_id \in BOOLEAN,
          b \in Blankings(variant) :
          chunk_data = Blanked(IF with_id
                               THEN [c EXCEPT !.id = GenerateUniqueId(variant, c)]
                               ELSE c, b)
    /\ chunk = <<chunk_data>>
    /\ enriched = <<>> /\ verdict = <<>> /\ detected_categories = <<>>
    /\ NoDocument /\ NoLevelC /\ NoDriver /\ NoStore

\* ingestion MetadataBuilder.validate_chunk(chunk)
ValidateChunk ==
    /\ pc = "v_start"
    /\ variant = "curriculum"
    /\ verdict' = <<Cur_validate_chunk(chunk[1])>>
    /\ pc' = "v_metadata"
    /\ UNCHANGED <<input_vars, run_vars, levelc_vars, doc_vars, chunk_data, chunk, enriched,
                   detected_categories>>

\* ingestion SupabaseClient.validate_chunk_data(chunk)
ValidateChunkData ==
    /\ pc = "v_start"
    /\ variant = "curriculum"
    /\ verdict' = <<validate_chunk_data(chunk[1])>>
    /\ pc' = "v_supabase"
    /\ UNCHANGED <<input_vars, run_vars, levelc_vars, doc_vars, chunk_data, chunk, enriched,
                   detected_categories>>

\* teaching_guides MetadataBuilder.validate_chunk(chunk)
ValidateGuideChunk ==
    /\ pc = "v_start"
    /\ variant = "guide"
    /\ verdict' = <<TG_validate_chunk(chunk[1])>>
    /\ pc' = "v_guide"
    /\ UNCHANGED <<input_vars, run_vars, levelc_vars, doc_vars, chunk_data, chunk, enriched,
                   detected_categories>>

NextValidate == ValidateChunk \/ ValidateChunkData \/ ValidateGuideChunk

SpecValidate == InitValidate /\ [][NextValidate]_vars

Validated == pc \in {"v_metadata", "v_supabase", "v_guide"}

\* C8 as stated: each of the three validators returns False for a chunk whose
\* chunk_text has fewer than 50 characters once trimmed, and leaves the text
\* of the chunk as it was.
C8_ShortTextRejected ==
    Validated =>
        /\ StrLen(Strip(chunk_data.chunk_text)) < MinChunkChars =>
              verdict = <<FALSE>>
        /\ chunk[1].chunk_text = chunk_data.chunk_text

\* the two validators that test the length do reject a short text
C8_LengthTested ==
    (pc \in {"v_supabase", "v_guide"}
       /\ StrLen(Strip(chunk_data.chunk_text)) < MinChunkChars) =>
        verdict = <<FALSE>>

(***************************************************************************)
(* Further properties of SpecLevelC.                                       *)
(***************************************************************************)
\* units[a..b] joined by single spaces and trimmed
RunText(units, a, b) ==
    Strip(Join(<<" ">>, SubSeq(units, a, b)))
RECURSIVE SumTokens(_, _, _)
SumTokens(units, a, b) ==
    IF a > b THEN 0 ELSE Tokens(units[a]) + SumTokens(units, a + 1, b)
\* cs are, one after the other, runs of whole consecutive units of units,
\* the first run starting at unit from, each run starting right after the
\* one before it
RECURSIVE ConsecutiveRuns(_, _, _)
ConsecutiveRuns(cs, units, from) ==
    IF cs = <<>> THEN TRUE
    ELSE \E b \in from..Len(units) :
             /\ Head(cs).chunk_text = RunText(units, from, b)
             /\ Head(cs).token_count = SumTokens(units, from, b)
             /\ ConsecutiveRuns(Tail(cs), units, b + 1)

\* C20: every chunk emitted by _level_c_chunking is a run of whole
\* consecutive sentence units of the section, in their order; the run of a
\* chunk starts right after the run of the chunk before it, so no unit is
\* split, shared by two chunks or reordered.
C20_WholeUnits ==
    pc \in {"c_loop", "c_done"} => ConsecutiveRuns(lc_chunks, sentences, 1)

C20_Witness ==
    /\ pc = "c_done"
    /\ Len(sentences) = 3
    /\ Len(lc_chunks) = 2
    /\ lc_chunks[1].chunk_text = RunText(sentences, 1, 2)
    /\ lc_chunks[2].chunk_text = RunText(sentences, 3, 3)
    /\ UnitTokens[1] # UnitTokens[2]

RECURSIVE SumCounts(_)
SumCounts(cs) == IF cs = <<>> THEN 0 ELSE Head(cs).token_count + SumCounts(Tail(cs))

\* C26: when _level_c_chunking is over, the chunks emitted are the units
\* 1..b of the section for some b, the units after b, which are in no chunk,
\* hold fewer than 50 tokens together, and the token counts of the chunks
\* add up to more than the tokens of the section minus 50.
C26_TailOnly ==
    pc = "c_done" =>
        /\ \E b \in 0..Len(sentences) :
              /\ ConsecutiveRuns(lc_chunks, SubSeq(sentences, 1, b), 1)
              /\ SumCounts(lc_chunks) = SumTokens(sentences, 1, b)
              /\ SumTokens(sentences, b + 1, Len(sentences)) < MinChunkTokens
        /\ SumCounts(lc_chunks) > SectionTokens - MinChunkTokens

\* units of 150, 150 and 49 tokens: one chunk of the first two, the third
\* is dropped
C26_Witness ==
    /\ pc = "c_done"
    /\ Len(sentences) = 3
    /\ Len(lc_chunks) = 1
    /\ lc_chunks[1].chunk_text = RunText(sentences, 1, 2)
    /\ lc_chunks[1].token_count = target_max_tokens
    /\ Tokens(sentences[3]) = MinChunkTokens - 1

\* C27: when no unit of the section has more than 150 tokens (maximum minus
\* minimum), no chunk emitted, the last included, has more than 300 tokens;
\* and whatever the units, every chunk emitted by the loop, before the final
\* flush, has at least 150 tokens.
C27_ConditionalUpperBound ==
    /\ (pc \in {"c_loop", "c_done"}
        /\ \A u \in 1..Len(sentences) :
              Tokens(sentences[u]) <= target_max_tokens - target_min_tokens)
       => /\ \A i \in 1..Len(lc_chunks) : lc_chunks[i].token_count <= target_max_tokens
          /\ current_tokens <= target_max_tokens
    /\ pc = "c_loop" =>
          \A i \in 1..Len(lc_chunks) : lc_chunks[i].token_count >= target_min_tokens

\* three units of 150 tokens: a chunk of 300 emitted by the loop and a last
\* chunk of 150 emitted by the flush
C27_Witness ==
    /\ pc = "c_done"
    /\ Len(sentences) = 3
    /\ \A u \in 1..3 : Tokens(sentences[u]) = target_max_tokens - target_min_tokens
    /\ Len(lc_chunks) = 2
    /\ lc_chunks[1].token_count = target_max_tokens
    /\ lc_chunks[2].token_count = target_min_tokens

(***************************************************************************)
(* Further properties of SpecDoc.                                          *)
(***************************************************************************)
\* the (1-based) numbers of the lines among lines that a pattern of
\* patterns matches
MatchingLines(lines, patterns) ==
    {i \in 1..Len(lines) :
        \E k \in 1..Len(patterns) : SearchIC(patterns[k], lines[i])}
\* the elements of the set of numbers S in increasing order
Ascending(S) ==
    [k \in 1..Cardinality(S) |->
        CHOOSE i \in S : Cardinality({j \in S : j < i}) = k - 1]

\* C17: when at least one line of the document matches a major pattern,
\* _level_a_chunking returns one section per matching line, in line order;
\* the i-th section holds the lines from its boundary line up to the line
\* before the next boundary (the last one up to the end of the document), so
\* the sections are contiguous and do not overlap; its label is the trimmed
\* boundary line.
C17_LevelASections ==
    Chunked =>
        LET lines == DocLinesOf
            m == Ascending(MatchingLines(lines, MajorPatterns)) \o <<>>
            n == Len(m)
            last(i) == IF i < n THEN m[i + 1] - 1 ELSE Len(lines)
        IN  n > 0 =>
              /\ Len(sectionsA) = n
              /\ \A i \in 1..n :
                    /\ LabelOf(sectionsA[i]) = Strip(lines[m[i]])
                    /\ sectionsA[i].text =
                           Join(<<"\n">>, SubSeq(lines, m[i], last(i)))
                    /\ sectionsA[i].line_start = m[i] - 1
                    /\ sectionsA[i].line_end = last(i)
              /\ \A i \in 1..(n - 1) :
                    sectionsA[i].line_end = sectionsA[i + 1].line_start

\* two sections, the first of several lines, after a line that belongs to no
\* section; the label differs from the untrimmed boundary line
C17_Witness ==
    /\ Chunked
    /\ Len(sectionsA) = 2
    /\ Len(pages) = 1
    /\ sectionsA[1].line_start = 0
    /\ sectionsA[1].line_end = 2
    /\ sectionsA[2].line_end = 3
    /\ LabelOf(sectionsA[1]) # DocLinesOf[1]

\* the page numbers of the document
DocPageNumbers == {pages[i].page_number : i \in 1..Len(pages)}
MinPage == CHOOSE n \in DocPageNumbers : \A m \in DocPageNumbers : n <= m
MaxPage == CHOOSE n \in DocPageNumbers : \A m \in DocPageNumbers : n >= m

\* C18: every Level-B section is fed by all the pages of the document, and
\* every chunk of the document carries page_start = the smallest and
\* page_end = the largest page_number of the document, so all chunks of one
\* document carry the same page range.
C18_PageAttribution ==
    Chunked =>
        /\ \A j \in 1..Len(sectionsB) : sectionsB[j].pages = pages
        /\ \A i \in 1..Len(chunks) :
              /\ chunks[i].page_start = MinPage
              /\ chunks[i].page_end = MaxPage

\* a document of two pages (numbered 1 and 3) giving two different chunks,
\* the second made of text of the second page only
C18_Witness ==
    /\ Chunked
    /\ Len(pages) = 2
    /\ Len(chunks) = 2
    /\ chunks[1].chunk_text # chunks[2].chunk_text
    /\ Contains(pages[2].text, chunks[2].chunk_text)
    /\ chunks[1].page_start = 1
    /\ chunks[2].page_end = 3

\* C25: two chunks at different places of the list chunk_document returns
\* for a document have different generate_unique_id values, and curriculum
\* chunks different source_paragraph_id values.
C25_IdentifiersUnique ==
    Chunked =>
        \A i, j \in 1..Len(chunks) :
            i < j =>
                /\ ids[i] # ids[j]
                /\ variant = "curriculum" =>
                      chunks[i].source_paragraph_id # chunks[j].source_paragraph_id

\* the texts of the sections put end to end, one line after the other
SectionsText(secs) == Join(<<"\n">>, [i \in 1..Len(secs) |-> secs[i].text])

\* C29: the Level-A sections of a document, and its Level-B sections, put
\* end to end in order give back the text of the document: every line is in
\* exactly one section of each level.
C29_NoLineLost ==
    Chunked =>
        /\ SectionsText(sectionsA) = DocText
        /\ SectionsText(sectionsB) = DocText

\* C30 as stated: every chunk chunk_document emits for a page list that is
\* not empty and a doc_id that is not empty is accepted by validate_chunk
\* after enrichment.
C30_AllAccepted ==
    (pc = "d_parsed" /\ pages # <<>> /\ doc_id # <<>>) =>
        \A i \in 1..Len(verdict) : verdict[i]

\* C30 amended: every chunk emitted for a page list that is not empty and a
\* doc_id that is not blank (not empty once trimmed) is accepted after
\* enrichment; with a blank doc_id every chunk is rejected.
C30_AcceptedUnlessBlankId ==
    (pc = "d_parsed" /\ pages # <<>>) =>
        /\ Len(verdict) = Len(chunks)
        /\ \A i \in 1..Len(verdict) : verdict[i] <=> ~Blank(doc_id)

\* two chunks of a document, both accepted
C30_Witness ==
    /\ pc = "d_parsed"
    /\ doc_id = s_d1
    /\ Len(chunks) = 2
    /\ chunks[1].chunk_text # chunks[2].chunk_text
    /\ verdict = <<TRUE, TRUE>>
    /\ chunks[2].is_general

(***************************************************************************)
(* Further properties of SpecMeta.                                         *)
(***************************************************************************)
\* C15 as stated: when no grade token occurs in the text of a curriculum
\* chunk, is_cycle_wide is true on the chunk _create_chunk assembles and is
\* still true on the chunk enrich_chunk_metadata returns, also when the
\* grades were backfilled from the cycle.
C15_CycleWideKept ==
    (variant = "curriculum" /\ Created
       /\ GradeTokensIn(chunk[1].chunk_text) = {}) =>
        /\ chunk[1].is_cycle_wide
        /\ Enriched => enriched[1].is_cycle_wide

\* the chunk as _create_chunk assembled it from the leaf
AsCreated ==
    IF variant = "curriculum" THEN Cur_create_chunk(chunk_data)
    ELSE TG_create_chunk(chunk_data)

\* C19 as stated: in both pipelines the chunk handed to enrich_chunk_metadata
\* and then to validate_chunk has, after each of them, every field as
\* _create_chunk set it.
C19_ChunkUnchanged ==
    Enriched => chunk = AsCreated

\* the part of C19 that holds: the curriculum builder enriches a copy, and
\* its validator leaves the chunk alone
C19_CurriculumCopy ==
    (variant = "curriculum" /\ Enriched) => chunk = AsCreated

\* the grade labels of a chunk
GradeLabels(v, c) ==
    IF v = "curriculum" THEN SeqToSet(c.grades) ELSE SeqToSet(c.applicable_grades)
CanonicalGrades == SeqToSet(GradeTokens)

\* C28: every grade label of a chunk, as assembled and as enriched, detected
\* in the text or set by default, is one of CP, CE1, CE2, CM1, CM2, 6e, 5e,
\* 4e, 3e (so that no grade is written in two ways).
C28_CanonicalGrades ==
    /\ Created => GradeLabels(variant, chunk[1]) \subseteq CanonicalGrades
    /\ Enriched => GradeLabels(variant, enriched[1]) \subseteq CanonicalGrades

(***************************************************************************)
(* Further properties of SpecValidate.                                     *)
(***************************************************************************)
\* the field is there and holds a character that is not whitespace
Filled(v) == v # NoneVal /\ \E i \in 1..Len(v) : v[i] \notin WS

\* C14: the teaching-guide validate_chunk returns True exactly when the
\* required fields are present and not blank, the chunk is general or has
\* an applicable grade, page_start <= page_end and the trimmed chunk_text has
\* at least 50 characters; the chunk it judged is as it was before.
C14_GuideValidator ==
    pc = "v_guide" =>
        /\ verdict[1] <=>
              /\ \A f \in StringFields : Filled(chunk_data[f])
              /\ \A f \in PageFields : chunk_data[f] # NoneInt
              /\ chunk_data.is_general \/ Len(chunk_data.applicable_grades) > 0
              /\ chunk_data.page_start <= chunk_data.page_end
              /\ StrLen(Strip(chunk_data.chunk_text)) >= MinChunkChars
        /\ chunk = <<chunk_data>>

\* a general chunk without grades, on one page, of exactly 50 characters
\* inside surrounding whitespace, is accepted
C14_Witness ==
    /\ pc = "v_guide"
    /\ verdict = <<TRUE>>
    /\ chunk_data.is_general /\ chunk_data.applicable_grades = <<>>
    /\ chunk_data.page_start = chunk_data.page_end
    /\ StrLen(Strip(chunk_data.chunk_text)) = MinChunkChars
    /\ StrLen(chunk_data.chunk_text) > MinChunkChars

\* each rule rejects on its own: a chunk failing one rule only
C14_WitnessRejects ==
    /\ pc = "v_guide"
    /\ verdict = <<FALSE>>
    /\ chunk_data.section_header = NoneVal
    /\ chunk_data.is_general
    /\ chunk_data.page_start <= chunk_data.page_end
    /\ StrLen(Strip(chunk_data.chunk_text)) >= MinChunkChars

(***************************************************************************)
(* The store clients: SupabaseClient.upsert_chunks of the curriculum       *)
(* pipeline (variant "curriculum") and of the teaching guides (variant     *)
(* "guide", which may clear the table first).                              *)
(***************************************************************************)
MaxBatches == 2

\* chunk.dict(exclude_none=True) followed by "del chunk_dict['id']": the
\* chunk as a row without its id (the id is the only optional field)
ChunkDict(c) == [f \in DOMAIN c \ {"id"} |-> c[f]]

\* a slice one record longer than the batch size
Batch_OneMore(dicts, i) ==
    SubSeq(dicts, i + 1, Min({i + batch_size + 1, Len(dicts)}))
\* chunk_dicts[i:i + batch_size]
Batch(dicts, i) == SubSeq(dicts, i + 1, Min({i + batch_size, Len(dicts)}))

LogLine(tag, n) == [tag |-> tag, n |-> n]

\* what insert(batch).execute() may do: answer with the inserted rows,
\* answer without data, or raise
Responses == {"data", "empty", "raise"}

\* upsert_chunks up to the start of the batch loop: the optional
\* clear_table(), which deletes every row or fails, and the conversion
UpsertBegin ==
    /\ pc = "u_start"
    /\ IF variant = "guide" /\ clear_first
       THEN \E cleared \in BOOLEAN :
               /\ table' = IF cleared THEN <<>> ELSE table
               /\ log' = log \o (IF cleared
                                 THEN <<LogLine("[WARNING] Clearing all data", 0),
                                        LogLine("[OK] Table cleared", 0)>>
                                 ELSE <<LogLine("[WARNING] Clearing all data", 0),
                                        LogLine("[ERROR] Failed to clear table", 0),
                                        LogLine("[WARNING] Failed to clear table, continuing", 0)>>)
       ELSE UNCHANGED <<table, log>>
    /\ chunk_dicts' = [k \in 1..Len(store_chunks) |-> ChunkDict(store_chunks[k])]
    /\ batch_i' = 0
    /\ successful_batches' = 0
    /\ pc' = "u_loop"
    /\ UNCHANGED <<input_vars, levelc_vars, doc_vars, chunk_vars, ocr_results,
                   doc_index, all_chunks, rejected, exit_status, store_chunks,
                   clear_first, sent_batches, success>>

\* one iteration of the batch loop
UpsertBatch ==
    /\ pc = "u_loop"
    /\ batch_i < Len(chunk_dicts)
    /\ LET batch == Batch(chunk_dicts, batch_i)
       IN  /\ sent_batches' = Append(sent_batches, batch)
           /\ \E response \in Responses :
                 IF response = "data"
                 THEN /\ table' = table \o batch
                      /\ successful_batches' = successful_batches + 1
                      /\ log' = Append(log, LogLine("Inserted batch", Len(batch)))
                      /\ batch_i' = batch_i + batch_size
                      /\ UNCHANGED <<pc, success>>
                 ELSE /\ log' = Append(log,
                                   IF response = "empty"
                                   THEN LogLine("Failed to insert batch",
                                                (batch_i \div batch_size) + 1)
                                   ELSE LogLine("Error inserting chunks", 0))
                      /\ success' = <<FALSE>>
                      /\ pc' = "u_returned"
                      /\ UNCHANGED <<table, successful_batches, batch_i>>
    /\ UNCHANGED <<input_vars, levelc_vars, doc_vars, chunk_vars, ocr_results,
                   doc_index, all_chunks, rejected, exit_status, store_chunks,
                   clear_first, chunk_dicts>>

\* the loop is over: "return True"
UpsertReturn ==
    /\ pc = "u_loop"
    /\ batch_i >= Len(chunk_dicts)
    /\ log' = Append(log, LogLine("Successfully inserted", Len(store_chunks)))
    /\ success' = <<TRUE>>
    /\ pc' = "u_returned"
    /\ UNCHANGED <<input_vars, levelc_vars, doc_vars, chunk_vars, ocr_results,
                   doc_index, all_chunks, rejected, exit_status, store_chunks,
                   clear_first, chunk_dicts, batch_i, successful_batches,
                   sent_batches, table>>

(***************************************************************************)
(* Specification SpecUpsert: one call of upsert_chunks on 0, 1 or about a  *)
(* multiple of batch_size valid chunks, on an empty table or one holding a *)
(* row of an earlier run.                                                  *)
(***************************************************************************)
UpsertLengths ==
    {0, 1} \cup {k * batch_size + d : k \in 1..MaxBatches, d \in {0 - 1, 0, 1}}
\* the k-th chunk of the call: a valid chunk whose pages tell it apart
StoreChunk(v, k) ==
    IF v = "curriculum"
    THEN CurriculumChunk(
             [cycle |-> s_3, grades |-> <<s_CM1>>, subject |-> s_Volet1,
              section_type |-> s_general, topic |-> s_Volet1, subtopic |-> s_Volet1,
              is_cycle_wide |-> FALSE, chunk_text |-> <<Fill(60), ".">>,
              page_start |-> k, page_end |-> k,
              source_paragraph_id |-> s_Volet1 \o <<"_">> \o s_Volet1 \o <<"_", "0">>,
              doc_id |-> s_d1, lang |-> s_fr])
    ELSE TeachingGuideChunk(
             [doc_id |-> s_d1, guide_type |-> s_pedagogical,
              applicable_grades |-> <<s_CM1>>, topic |-> s_General,
              subtopic |-> s_General, section_header |-> s_General,
              chunk_text |-> <<Fill(60), ".">>, page_start |-> k, page_end |-> k,
              is_general |-> FALSE, lang |-> s_fr,
              applicable_categories |-> <<"general">>])
StoreChunks(v, n) == [k \in 1..n |-> StoreChunk(v, k)]
\* a row left by an earlier ingestion run
OldRow(v) == ChunkDict([StoreChunk(v, 0) EXCEPT !.doc_id = s_d2])

InitUpsert ==
    /\ pc = "u_start"
    /\ variant \in Variants
    /\ \E n \in UpsertLengths : store_chunks = StoreChunks(variant, n)
    /\ clear_first \in (IF variant = "guide" THEN BOOLEAN ELSE {FALSE})
    /\ table \in {<<>>, <<OldRow(variant)>>}
    /\ chunk_dicts = <<>> /\ batch_i = 0 /\ successful_batches = 0
    /\ sent_batches = <<>> /\ success = <<>>
    /\ pages = <<>> /\ doc_id = <<>>
    /\ sectionsA = <<>> /\ sectionsB = <<>> /\ chunks = <<>> /\ chunks2 = <<>>
    /\ run = 0 /\ ids = <<>> /\ ids2 = <<>>
    /\ NoLevelC /\ NoChunk /\ NoDriver

NextUpsert == UpsertBegin \/ UpsertBatch \/ UpsertReturn

SpecUpsert == InitUpsert /\ [][NextUpsert]_vars

\* the batches sent so far, one after the other
RECURSIVE Concat(_)
Concat(seqs) == IF seqs = <<>> THEN <<>> ELSE Head(seqs) \o Concat(Tail(seqs))
Returned == pc = "u_returned"

\* C13: upsert_chunks hands the store batches of at most 100 records; when
\* it returns after every batch was acknowledged, it returns True and the
\* batches, in the order sent, put end to end are the input chunks in their
\* order, each as its row: none lost, none twice.
C13_Batches ==
    /\ \A b \in 1..Len(sent_batches) :
          Len(sent_batches[b]) \in 1..batch_size
    /\ (Returned /\ successful_batches = Len(sent_batches)) =>
          /\ success = <<TRUE>>
          /\ Len(Concat(sent_batches)) = Len(store_chunks)
          /\ \A k \in 1..Len(store_chunks) :
                Concat(sent_batches)[k] = ChunkDict(store_chunks[k])

\* 201 chunks sent as batches of 100, 100 and 1
C13_Witness ==
    /\ Returned
    /\ success = <<TRUE>>
    /\ Len(store_chunks) = 2 * batch_size + 1
    /\ Len(sent_batches) = 3
    /\ Len(sent_batches[1]) = batch_size
    /\ Len(sent_batches[3]) = 1
    /\ sent_batches[3][1].page_start = 2 * batch_size + 1

(***************************************************************************)
(* The pipeline driver: main() of teaching_guides/run_ingestion.py, run    *)
(* under the handler of "if __name__ == '__main__'".                       *)
(***************************************************************************)
MaxDocs == 2

\* What extract_text_from_file may return for one PDF.  shape "none" is None
\* (or an empty dict), "dict" a dict with 'doc_id' and 'pages', "no_pages" a
\* dict without the 'pages' key; a page whose text is NoneVal has no 'text'.
OcrResult(shape, did, pgs) == [shape |-> shape, doc_id |-> did, pages |-> pgs]
OnePage(text) == <<[page_number |-> 1, text |-> text]>>
\* a page that has a text and no 'page_number'
Unnumbered(text) == <<[page_number |-> NoneInt, text |-> text]>>
OcrCatalogue ==
    { OcrResult("none", <<>>, <<>>),
      OcrResult("dict", s_d1, OnePage(l_mid)),
      OcrResult("dict", s_d2, OnePage(Join(<<"\n">>, <<l_chapitre, l_long, l_marks>>))),
      OcrResult("dict", <<" ">>, OnePage(Join(<<"\n">>, <<l_chapitre, l_long, l_marks>>))),
      OcrResult("dict", s_d1, OnePage(l_short)),
      OcrResult("dict", s_d1, Unnumbered(Join(<<"\n">>, <<l_chapitre, l_long, l_marks>>))),
      OcrResult("no_pages", s_d2, <<>>),
      OcrResult("dict", s_d2, OnePage(NoneVal)) }

\* parse_ocr_to_chunks raises: ocr_result['pages'] on a dict without the
\* key, or page['text'] in _combine_pages_text on a page without text
ParseRaises(ocr) ==
    \/ ocr.shape = "no_pages"
    \/ \E i \in 1..Len(ocr.pages) : ocr.pages[i].text = NoneVal

\* parse_ocr_to_chunks, when it does not raise: the chunks of the document,
\* each enriched, what validate_chunk says of each, and the list returned
EnrichAll(cs) == [i \in 1..Len(cs) |-> TG_enrich_chunk_metadata(cs[i])] \o <<>>
ValidateAll(enr) == [i \in 1..Len(enr) |-> TG_validate_chunk(enr[i])] \o <<>>
Not(oks) == [i \in 1..Len(oks) |-> ~oks[i]]
ParseResult(enr, oks) ==
    [enriched |-> enr, verdicts |-> oks, valid_chunks |-> Keep(enr, oks),
     dropped |-> Keep(enr, Not(oks))]
ParseEnriched(enr) == ParseResult(enr, ValidateAll(enr))
ParseOcr(ocr) == ParseEnriched(EnrichAll(TG_chunk_document(ocr.pages, ocr.doc_id)))
parse_ocr_to_chunks(ocr) == ParseOcr(ocr).valid_chunks
\* the lines _create_chunk prints while the document is chunked: one for
\* every leaf whose assembly raised
AssemblyErrors(leaves) ==
    LET failed == SelectSeq(leaves, CreateRaises)
    IN  [i \in 1..Len(failed) |-> LogLine("Error creating chunk", i)]

\* what parse_ocr_to_chunks returns and what _create_chunk prints for each
\* result of the catalogue that can be parsed, computed once
ParsedCatalogue ==
    [o \in OcrCatalogue |->
        IF o.shape = "none" \/ ParseRaises(o)
        THEN [parsed |-> ParseResult(<<>>, <<>>), errors |-> <<>>]
        ELSE [parsed |-> ParseOcr(o),
              errors |-> AssemblyErrors(TG_leaves(o.pages, o.doc_id))]] @@ <<>>

\* main up to the loop over the PDFs: the folder holds no PDF, or the
\* clients cannot be initialised, or the loop starts
MainStart ==
    /\ pc = "main_start"
    /\ IF ocr_results = <<>>
       THEN /\ log' = Append(log, LogLine("[ERROR] No PDF files found", 0))
            /\ exit_status' = <<1>>
            /\ pc' = "main_exit"
            /\ UNCHANGED doc_index
       ELSE \E initialised \in BOOLEAN :
               IF initialised
               THEN /\ log' = log \o <<LogLine("[INFO] Found PDF files", Len(ocr_results)),
                                       LogLine("[OK] Clients initialized", 0)>>
                    /\ doc_index' = 1
                    /\ pc' = "main_loop"
                    /\ UNCHANGED exit_status
               ELSE /\ log' = log \o <<LogLine("[INFO] Found PDF files", Len(ocr_results)),
                                       LogLine("[ERROR] Failed to initialize clients", 0)>>
                    /\ exit_status' = <<1>>
                    /\ pc' = "main_exit"
                    /\ UNCHANGED doc_index
    /\ all_chunks' = <<>>
    /\ UNCHANGED <<input_vars, levelc_vars, doc_vars, chunk_vars, ocr_results,
                   rejected, store_vars>>

\* the end of an iteration whose document was parsed into parsed
\* the loop body with a collector that holds the chunks of the last document
\* only
DocumentParsed_Overwrite(parsed, n_pages, errors) ==
    /\ enriched' = parsed.enriched
    /\ verdict' = parsed.verdicts
    /\ all_chunks' = parsed.valid_chunks
    /\ rejected' = rejected \o parsed.dropped
    /\ log' = log \o <<LogLine("Processing", doc_index),
                       LogLine("[INFO] Parsing into chunks", 0),
                       LogLine("[DEBUG] doc_id from OCR result", doc_index),
                       LogLine("[DEBUG] Number of pages", n_pages)>>
                  \o errors
                  \o <<LogLine("[DEBUG] Chunks created by chunker",
                               Len(parsed.enriched)),
                       LogLine("[OK] Created valid chunks",
                               Len(parsed.valid_chunks))>>
    /\ doc_index' = doc_index + 1
    /\ UNCHANGED <<pc, exit_status>>

\* lines 138-142 of main: what parse_ocr_to_chunks returned is printed and
\* appended to all_chunks
DocumentParsed(parsed, n_pages, errors) ==
    /\ enriched' = parsed.enriched
    /\ verdict' = parsed.verdicts
    /\ all_chunks' = all_chunks \o parsed.valid_chunks
    /\ rejected' = rejected \o parsed.dropped
    /\ log' = log \o <<LogLine("Processing", doc_index),
                       LogLine("[INFO] Parsing into chunks", 0),
                       LogLine("[DEBUG] doc_id from OCR result", doc_index),
                       LogLine("[DEBUG] Number of pages", n_pages)>>
                  \o errors
                  \o <<LogLine("[DEBUG] Chunks created by chunker",
                               Len(parsed.enriched)),
                       LogLine("[OK] Created valid chunks",
                               Len(parsed.valid_chunks))>>
    /\ doc_index' = doc_index + 1
    /\ UNCHANGED <<pc, exit_status>>

\* one iteration of "for i, pdf_file in enumerate(pdf_files, 1)".  An
\* exception of parse_ocr_to_chunks is caught by nothing in main: it ends
\* main and reaches the handler under __main__, which prints and exits 1.
ProcessDocument ==
    /\ pc = "main_loop"
    /\ doc_index <= Len(ocr_results)
    /\ IF ocr_results[doc_index].shape = "none"
       THEN /\ log' = log \o <<LogLine("Processing", doc_index),
                               LogLine("[WARNING] Failed to extract text, skipping", 0)>>
            /\ doc_index' = doc_index + 1
            /\ UNCHANGED <<pc, all_chunks, rejected, exit_status, enriched, verdict>>
       ELSE IF ParseRaises(ocr_results[doc_index])
       THEN /\ log' = log \o <<LogLine("Processing", doc_index),
                               LogLine("[INFO] Parsing into chunks", 0),
                               LogLine("[DEBUG] doc_id from OCR result", doc_index),
                               LogLine("[DEBUG] Number of pages",
                                       Len(ocr_results[doc_index].pages)),
                               LogLine("[FATAL] Fatal error", 0)>>
            /\ exit_status' = <<1>>
            /\ pc' = "main_exit"
            /\ UNCHANGED <<doc_index, all_chunks, rejected, enriched, verdict>>
       ELSE DocumentParsed(ParsedCatalogue[ocr_results[doc_index]].parsed,
                           Len(ocr_results[doc_index].pages),
                           ParsedCatalogue[ocr_results[doc_index]].errors)
    /\ UNCHANGED <<input_vars, levelc_vars, doc_vars, chunk_data, chunk,
                   detected_categories, ocr_results, store_vars>>

\* after the loop: no valid chunk ends the run, otherwise upsert_chunks is
\* called with all the chunks (clear_first keeps its default, True)
InsertChunks ==
    /\ pc = "main_loop"
    /\ doc_index > Len(ocr_results)
    /\ IF all_chunks = <<>>
       THEN /\ log' = log \o <<LogLine("[OK] Total chunks created", 0),
                               LogLine("[ERROR] No valid chunks created", 0)>>
            /\ exit_status' = <<1>>
            /\ pc' = "main_exit"
            /\ UNCHANGED <<store_chunks, clear_first>>
       ELSE /\ log' = Append(log, LogLine("[OK] Total chunks created", Len(all_chunks)))
            /\ store_chunks' = all_chunks
            /\ clear_first' = TRUE
            /\ pc' = "u_start"
            /\ UNCHANGED exit_status
    /\ UNCHANGED <<input_vars, levelc_vars, doc_vars, chunk_vars, ocr_results,
                   doc_index, all_chunks, rejected, chunk_dicts, batch_i,
                   successful_batches, sent_batches, table, success>>

\* upsert_chunks has returned to main: failure ends the run with 1,
\* success prints the statistics and the run ends normally
MainAfterUpsert ==
    /\ pc = "u_returned"
    /\ doc_index > 0
    /\ IF success = <<TRUE>>
       THEN /\ log' = log \o <<LogLine("[SUCCESS] INGESTION COMPLETE", 0),
                               LogLine("Rows inserted", Len(all_chunks))>>
            /\ exit_status' = <<0>>
            /\ pc' = "main_done"
       ELSE /\ log' = Append(log, LogLine("[ERROR] Failed to insert chunks into database", 0))
            /\ exit_status' = <<1>>
            /\ pc' = "main_exit"
    /\ UNCHANGED <<input_vars, levelc_vars, doc_vars, chunk_vars, ocr_results,
                   doc_index, all_chunks, rejected, store_vars>>

(***************************************************************************)
(* Specification SpecDriver: one run of the driver over a folder of up to  *)
(* MaxDocs PDFs, the store's table being empty or holding a row of an      *)
(* earlier run.                                                            *)
(***************************************************************************)
OcrBatches == UNION {[1..n -> OcrCatalogue] : n \in 0..MaxDocs}

InitDriver ==
    /\ pc = "main_start"
    /\ variant = "guide"
    /\ ocr_results \in OcrBatches
    /\ doc_index = 0 /\ all_chunks = <<>> /\ rejected = <<>> /\ log = <<>>
    /\ exit_status = <<>>
    /\ table \in {<<>>, <<OldRow("guide")>>}
    /\ store_chunks = <<>> /\ clear_first = FALSE /\ chunk_dicts = <<>>
    /\ batch_i = 0 /\ successful_batches = 0 /\ sent_batches = <<>>
    /\ success = <<>>
    /\ pages = <<>> /\ doc_id = <<>>
    /\ sectionsA = <<>> /\ sectionsB = <<>> /\ chunks = <<>> /\ chunks2 = <<>>
    /\ run = 0 /\ ids = <<>> /\ ids2 = <<>>
    /\ NoLevelC /\ NoChunk

NextDriver ==
    \/ MainStart \/ ProcessDocument \/ InsertChunks
    \/ UpsertBegin \/ UpsertBatch \/ UpsertReturn
    \/ MainAfterUpsert

SpecDriver == InitDriver /\ [][NextDriver]_vars

\* The driver is one sequential program: the interpreter runs the next
\* statement as long as there is one, and the calls to the OCR and store
\* clients are synchronous and return.  Whatever step is enabled is taken.
SpecDriverFair == SpecDriver /\ WF_vars(NextDriver)

\* the run is over
Ended == pc \in {"main_exit", "main_done"}
\* document k gave nothing to parse, or something parse_ocr_to_chunks cannot
\* read
BadDocument(k) ==
    \/ ocr_results[k].shape # "dict"
    \/ \E i \in 1..Len(ocr_results[k].pages) : ocr_results[k].pages[i].text = NoneVal
\* the chunks of document k that the validator accepts
AcceptedOf(k) ==
    IF BadDocument(k) THEN <<>>
    ELSE SelectSeq(ParseOcr(ocr_results[k]).enriched, TG_validate_chunk)
RECURSIVE AcceptedUpTo(_)
AcceptedUpTo(n) == IF n = 0 THEN <<>> ELSE AcceptedUpTo(n - 1) \o AcceptedOf(n)

\* C11 as stated: a bad document (OCR gave nothing, or gave something that
\* is not a well-formed list of pages) is skipped: once the loop has started
\* the run ends only after every document was visited, and the chunks
\* collected are those accepted from all the good documents visited so far.
C11_BadDocumentSkipped ==
    doc_index > 0 =>
        /\ Ended => doc_index = Len(ocr_results) + 1
        /\ all_chunks = AcceptedUpTo(doc_index - 1)

\* the part of C11 that holds: a document for which OCR returned nothing is
\* skipped and the loop goes on
C11_NothingSkipped ==
    doc_index > 0 =>
        /\ (Ended /\ doc_index <= Len(ocr_results)) =>
              ParseRaises(ocr_results[doc_index])
        /\ all_chunks = AcceptedUpTo(doc_index - 1)

\* the rows handed to the store so far
RowsSent == Concat(sent_batches)

\* C12: every chunk the driver hands to upsert_chunks, and every row that
\* reaches the store, is of a chunk validate_chunk accepted; a rejected
\* chunk is in neither; and a rejection does not end the loop: the chunks
\* collected are those accepted from every document visited, and the run
\* ends inside the loop only on a document that cannot be parsed.
C12_OnlyAcceptedStored ==
    /\ \A k \in 1..Len(store_chunks) : TG_validate_chunk(store_chunks[k])
    /\ \A k \in 1..Len(RowsSent) :
          \E j \in 1..Len(all_chunks) :
              /\ TG_validate_chunk(all_chunks[j])
              /\ RowsSent[k] = ChunkDict(all_chunks[j])
    /\ \A r \in 1..Len(rejected) :
          /\ ~TG_validate_chunk(rejected[r])
          /\ \A k \in 1..Len(store_chunks) : store_chunks[k] # rejected[r]
          /\ \A k \in 1..Len(RowsSent) : RowsSent[k] # ChunkDict(rejected[r])
    /\ doc_index > 0 =>
          /\ all_chunks = AcceptedUpTo(doc_index - 1)
          /\ (Ended /\ doc_index <= Len(ocr_results)) =>
                ParseRaises(ocr_results[doc_index])

\* the two chunks of the first document were rejected one after the other,
\* the chunks of the second were accepted and are the rows the store received
C12_Witness ==
    /\ pc = "main_done"
    /\ Len(ocr_results) = 2
    /\ Len(rejected) = 2
    /\ rejected[1] # rejected[2]
    /\ rejected[2].doc_id = ocr_results[1].doc_id
    /\ Len(all_chunks) = 2
    /\ all_chunks[1].doc_id = ocr_results[2].doc_id
    /\ RowsSent = <<ChunkDict(all_chunks[1]), ChunkDict(all_chunks[2])>>
    /\ table = RowsSent

\* C16 as stated: every chunk the validator has rejected has a log entry
\* that names the rejection and the chunk.
C16_RejectionLogged ==
    \A r \in 1..Len(rejected) :
        \E j \in 1..Len(log) :
            /\ log[j].tag \in {"rejected", "[WARNING] Rejected chunk",
                               "[ERROR] Invalid chunk"}
            /\ log[j].n = r

\* what the driver does print about a document: how many chunks the chunker
\* made and how many are valid
C16_CountsLogged ==
    (pc = "main_loop" /\ doc_index > 1 /\ ~BadDocument(doc_index - 1)) =>
        /\ log[Len(log)] = LogLine("[OK] Created valid chunks",
                                   Len(AcceptedOf(doc_index - 1)))
        /\ log[Len(log) - 1] = LogLine("[DEBUG] Chunks created by chunker",
                                       Len(ParseOcr(ocr_results[doc_index - 1]).enriched))

(***************************************************************************)
(* Further properties of SpecDriver.                                       *)
(***************************************************************************)
\* the document the loop has just gone through was chunked
JustParsed == pc = "main_loop" /\ doc_index > 1 /\ ~BadDocument(doc_index - 1)
ErrorLines(k) == {j \in 1..Len(log) : log[j] = LogLine("Error creating chunk", k)}

RECURSIVE AssembledUpTo(_)
AssembledUpTo(n) ==
    IF n = 0 THEN <<>>
    ELSE AssembledUpTo(n - 1)
         \o (IF BadDocument(n) THEN <<>> ELSE ParseOcr(ocr_results[n]).enriched)
\* every document was visited, each chunk assembled is among the accepted or
\* among the rejected
AllResolved ==
    /\ doc_index = Len(ocr_results) + 1
    /\ Len(all_chunks) + Len(rejected) = Len(AssembledUpTo(Len(ocr_results)))

\* C23 as stated: once the loop over the documents has started, the run
\* eventually ends having visited every document and resolved every chunk
\* assembled as accepted or rejected.
C23_EveryDocumentResolved == (doc_index > 0) ~> (Ended /\ AllResolved)

\* the parts of C23 that hold: every run ends; the loop goes through the
\* documents one by one in input order and never goes back to one; the
\* chunks of the documents visited are each accepted or rejected, once
C23_Terminates == <>Ended
C23_NoRetry == [][doc_index' = doc_index \/ doc_index' = doc_index + 1]_vars
C23_ResolvedOnce ==
    doc_index > 0 =>
        /\ Len(all_chunks) + Len(rejected) = Len(AssembledUpTo(doc_index - 1))
        /\ \A k \in 1..Len(AssembledUpTo(doc_index - 1)) :
              LET c == AssembledUpTo(doc_index - 1)[k]
              IN  IF TG_validate_chunk(c)
                  THEN \E j \in 1..Len(all_chunks) : all_chunks[j] = c
                  ELSE \E j \in 1..Len(rejected) : rejected[j] = c

\* what parse_ocr_to_chunks returns for one OCR result taken alone (nothing
\* for a result that is skipped)
AcceptedAlone(ocr) == ParsedCatalogue[ocr].parsed.valid_chunks
\* the accepted chunks of a sequential run over batch, in the order order
RECURSIVE SequentialRun(_, _, _)
SequentialRun(batch, order, n) ==
    IF n = 0 THEN <<>>
    ELSE SequentialRun(batch, order, n - 1) \o AcceptedAlone(batch[order[n]])
LoopOver == doc_index = Len(ocr_results) + 1

RowsOf(cs) == [k \in 1..Len(cs) |-> ChunkDict(cs[k])]

\* C21: whenever upsert_chunks(chunks, clear_first=True) returns True, the
\* table holds exactly the rows of the chunks just passed in, and no row of
\* an earlier ingestion run.
C21_ClearSupersedes ==
    (Returned /\ clear_first /\ success = <<TRUE>>) =>
        table = RowsOf(store_chunks)

====
